---- MODULE Spec2Model ----
(***************************************************************************)
(* Model of the decision-and-dispatch core of aura-secure-assistant:       *)
(*   - PolicyEngine            (src/src/security/policy.py)                *)
(*   - ToolRegistry/ToolExecutor (src/src/tools/tool_executor.py)          *)
(*   - Watcher._monitor_calls  (src/src/brain/watcher.py)                  *)
(***************************************************************************)
EXTENDS Integers, Sequences, FiniteSets, TLC

VARIABLES
    allowed_tools,   \* PolicyEngine.allowed_tools: tool name -> ActionRisk value
    denied_tools,    \* PolicyEngine.denied_tools (a list, used for membership only)
    pol_call,        \* the last check_tool call: <<tool, user_approved>>, <<>> before any
    pol_ret,         \* the value the last check_tool call returned
    pol_watch,       \* ghost: the check_tool call that is watched: <<tool, user_approved>>, <<>> for none
    pol_memo,        \* ghost: <<what the first watched call returned, it was made again>>, <<>> before it
    risk_call,       \* the last get_tool_risk call: <<tool>>, <<>> before any
    risk_ret,        \* the value the last get_tool_risk call returned
    plan,            \* the tool_calls list handed to the last execute_plan
    results,         \* the list execute_plan returned
    invoked,         \* the tool functions called by the last execute_plan, in order
    raised,          \* TRUE when the last executor call let an exception escape
    exec_op,         \* the executor method called last: "none", "execute_tool", "execute_plan"
    now,             \* wall clock at the last poll, in ticks of 1/TicksPerSecond second
    active_calls,    \* Watcher.active_calls: call_id -> start_time
    event_queue,     \* Watcher.event_queue: events put and not yet taken
    last_poll,       \* the caller the last _check_call_status reported, "none" for None
    run_start,       \* ghost: tick of the first of the consecutive polls reporting last_poll
    auto_count,      \* ghost: call_auto_answer events put during that run of polls
    short_call,      \* ghost: a run shorter than the threshold ended with such an event put
    running,         \* Watcher.running
    event_handlers,  \* Watcher.event_handlers: event type -> list of handlers
    event_counts,    \* Watcher.event_counts: event type -> events processed
    disp_pc,         \* where the _process_events task stands
    prod_pc,         \* where each of the three monitoring tasks stands
    tasks,           \* handler tasks created by the dispatcher that have not run yet
    put_count,       \* ghost: events put so far; the n-th event put carries id n
    dispatched,      \* ghost: the events the dispatcher took, in the order it took them
    handler_calls,   \* ghost: the handler calls the dispatcher made, in order
    started,         \* ghost: the handler tasks that have run, in order
    llm_running,     \* the LLM server process is up (LLMServer.process)
    stop_pc,         \* where the engine's stop() stands
    sa_call,         \* the last _should_answer_call call: <<context, hour>>, <<>> before any
    sa_ret,          \* <<the value the last _should_answer_call call returned>>, <<>> before any
    active_call,     \* CallHandler.active_call: <<>> for None, else <<the context and the transcript>>
    answered,        \* ghost: the calls of the answer actuator, one entry per call
    declined,        \* ghost: the number of calls of the decline actuator
    spoken,          \* ghost: the texts handed to the text-to-speech, in order
    stored,          \* the items the handler stored in memory, in order
    hic_ret,         \* <<the value the last handle_incoming_call returned>>, <<>> before any
    prio_call,       \* the call_info handed to the last _calculate_call_priority call
    prio_ret,        \* <<the value that call returned>>, <<>> before it
    call_over,       \* ghost: a poll found no ringing call while a call session was active
    reasoning_requests, \* the requests handed to the reasoning engine by event handlers
    operator_notices, \* the texts handed to the operator notification by event handlers
    sec_call,        \* the arguments and the environment of the last get_secret call
    sec_ret,         \* <<the value that call returned>>, <<>> before it
    lock_file,       \* data/.aura_running: <<>> when absent, else <<its content>>
    sw_pc,           \* per process: where the construction of its SafetySwitch stands
    sw_exit,         \* per process: <<the exit code>>, <<>> while it has not exited
    agent_call,      \* <<the last message to process_message and the answer at the prompt>>
    agent_ret,       \* the text that call returned
    agent_steps,     \* what that call did, in order
    conversation_history,  \* AuraAgent.conversation_history: the messages received
    ctx_messages,    \* ContextManager.messages of the agent
    ctx_added,       \* every message handed to add_message, in order
    nav_op,          \* the automation of AppNavigator under way: <<its name>>, or <<>>
    nav_results,     \* its results list: one [action, success] per step made
    nav_ret,         \* <<the success flag the tool wrapper returned>>, <<>> before it
    boot_pc,         \* where main() of aura_engine.py stands
    init_ret,        \* <<what AuraEngine.initialize returned>>, <<>> before it
    exit_code,       \* <<the exit code of the process>>, <<>> while it lives
    telegram_started,  \* the Telegram application is polling
    engine_running,  \* AuraEngine.running
    hic_call,        \* <<the inputs of the last handle_incoming_call>>, <<>> before any
    hic_count,       \* the number of handle_incoming_call calls made
    conv_count,      \* the number of handle_call_conversation calls made
    end_count,       \* the number of end_call calls made
    llm_calls,       \* the number of LLMServer.generate calls the call handler made
    boss_notices,    \* the number of _notify_boss calls made
    last_notifications,  \* the local set of _monitor_notifications: the ids seen
    notif_fresh,     \* the number of notifications posted so far besides the standing one
    notif_polls,     \* the number of iterations _monitor_notifications has made
    cal_now,         \* datetime.now() as _monitor_time reads it, in seconds
    loop_count,      \* for each loop of the Watcher, how many tasks are running it
    start_count      \* the number of calls of Watcher.start made

vars == <<allowed_tools, denied_tools, pol_call, pol_ret, pol_watch, pol_memo, risk_call, risk_ret,
          plan, results, invoked, raised, exec_op,
          now, active_calls, event_queue, last_poll, run_start, auto_count, short_call,
          running, event_handlers, event_counts, disp_pc, prod_pc, tasks, put_count,
          dispatched, handler_calls, started, llm_running, stop_pc,
          sa_call, sa_ret, active_call, answered, declined, spoken, stored, hic_ret,
          prio_call, prio_ret, call_over, reasoning_requests, operator_notices,
          sec_call, sec_ret, lock_file, sw_pc, sw_exit,
          agent_call, agent_ret, agent_steps, conversation_history, ctx_messages, ctx_added,
          nav_op, nav_results, nav_ret,
          boot_pc, init_ret, exit_code, telegram_started, engine_running,
          hic_call, hic_count, conv_count, end_count, llm_calls, boss_notices,
          last_notifications, notif_fresh, notif_polls, cal_now, loop_count, start_count>>

policyVars == <<allowed_tools, denied_tools, pol_call, pol_ret, pol_watch, pol_memo, risk_call, risk_ret>>
execVars == <<plan, results, invoked, raised, exec_op>>
callVars == <<now, active_calls, last_poll, run_start, auto_count, short_call>>
watcherVars == <<now, active_calls, event_queue, last_poll, run_start, auto_count, short_call>>
dispatchVars == <<running, event_handlers, event_counts, disp_pc, prod_pc, tasks, put_count,
                  dispatched, handler_calls, started, llm_running, stop_pc>>
handlerVars == <<sa_call, sa_ret, active_call, answered, declined, spoken, stored, hic_ret>>
platformVars == <<prio_call, prio_ret, call_over, reasoning_requests, operator_notices,
                  sec_call, sec_ret, lock_file, sw_pc, sw_exit,
                  agent_call, agent_ret, agent_steps, conversation_history, ctx_messages, ctx_added,
                  nav_op, nav_results, nav_ret,
                  boot_pc, init_ret, exit_code, telegram_started, engine_running,
                  hic_call, hic_count, conv_count, end_count, llm_calls, boss_notices,
          last_notifications, notif_fresh, notif_polls, cal_now, loop_count, start_count>>
sessionVars == <<hic_call, hic_count, conv_count, end_count, llm_calls, boss_notices>>
monitorVars == <<last_notifications, notif_fresh, notif_polls, cal_now, loop_count, start_count>>
agentVars == <<agent_call, agent_ret, agent_steps, conversation_history,
               ctx_messages, ctx_added>>
navVars == <<nav_op, nav_results, nav_ret>>
bootVars == <<boot_pc, init_ret, exit_code, telegram_started, engine_running>>
otherVars == <<agentVars, navVars, bootVars, sessionVars, monitorVars>>
quietVars == <<prio_call, prio_ret, call_over, reasoning_requests, operator_notices,
               sec_call, sec_ret, lock_file, sw_pc, sw_exit,
               agentVars, navVars, bootVars, sessionVars>>
baseVars == <<prio_call, prio_ret, call_over, reasoning_requests, operator_notices,
              sec_call, sec_ret, lock_file, sw_pc, sw_exit, sessionVars, monitorVars>>
restVars == <<prio_call, prio_ret, call_over, reasoning_requests, operator_notices,
              sec_call, sec_ret, lock_file, sw_pc, sw_exit, agentVars, navVars, bootVars,
              monitorVars>>
secretVars == <<sec_call, sec_ret>>
lockVars == <<lock_file, sw_pc, sw_exit>>
engineVars == <<call_over, reasoning_requests, operator_notices>>

----------------------------------------------------------------------------
(* ActionRisk (policy.py:13-17) *)
LOW == 1
MEDIUM == 2
HIGH == 3
CRITICAL == 4

ActionRisk == {LOW, MEDIUM, HIGH, CRITICAL}

(* PolicyEngine.__init__: the allow-list and the deny-list as constructed *)
DefaultAllowed ==
    [t \in {"read_notifications", "read_whatsapp", "send_whatsapp", "calendar_create",
            "phone_call", "phone_answer", "read_sms", "send_sms"} |->
        CASE t = "read_notifications" -> LOW
          [] t = "read_whatsapp" -> LOW
          [] t = "send_whatsapp" -> MEDIUM
          [] t = "calendar_create" -> MEDIUM
          [] t = "phone_call" -> HIGH
          [] t = "phone_answer" -> HIGH
          [] t = "read_sms" -> LOW
          [] t = "send_sms" -> MEDIUM]

DefaultDenied == {"exec_shell", "browse_web", "open_url", "access_bank", "network_scan"}

(* ToolRegistry._register_default_tools: the names bound to a tool function *)
RegisteredTools ==
    {"send_whatsapp_message", "make_phone_call", "send_sms", "open_app", "tap_screen",
     "type_text", "press_back", "press_home", "get_current_app", "take_screenshot", "wait"}

(* Every tool name a caller may hand to the policy or to the executor. *)
ToolNames == DOMAIN DefaultAllowed \cup DefaultDenied \cup RegisteredTools \cup {"rm_rf"}

(* allowed_tools and denied_tools are plain attributes of the engine; besides the *)
(* constructed tables the policy is exercised on tables where a deny-listed name  *)
(* is also allow-listed and where a tool is classified CRITICAL.                  *)
Override(f, t, r) == [x \in DOMAIN f \cup {t} |-> IF x = t THEN r ELSE f[x]]

PolicyTables ==
    {DefaultAllowed,
     Override(DefaultAllowed, "exec_shell", LOW),
     Override(DefaultAllowed, "access_bank", CRITICAL),
     Override(DefaultAllowed, "calendar_create", CRITICAL)}

(* PolicyEngine.check_tool(tool_name, user_approved), against the tables given *)
check_tool_no_denylist(allowed, denied, tool_name, user_approved) ==
    IF tool_name \notin DOMAIN allowed THEN FALSE
    ELSE IF allowed[tool_name] >= HIGH /\ ~user_approved THEN FALSE
    ELSE TRUE

check_tool_approval_overrides(allowed, denied, tool_name, user_approved) ==
    IF tool_name \in denied THEN FALSE
    ELSE IF tool_name \notin DOMAIN allowed THEN user_approved
    ELSE IF allowed[tool_name] >= HIGH /\ ~user_approved THEN FALSE
    ELSE TRUE

check_tool_medium_needs_approval(allowed, denied, tool_name, user_approved) ==
    IF tool_name \in denied THEN FALSE
    ELSE IF tool_name \notin DOMAIN allowed THEN FALSE
    ELSE IF allowed[tool_name] >= MEDIUM /\ ~user_approved THEN FALSE
    ELSE TRUE

check_tool(allowed, denied, tool_name, user_approved) ==
    IF tool_name \in denied THEN FALSE
    ELSE IF tool_name \notin DOMAIN allowed THEN FALSE
    ELSE IF allowed[tool_name] >= HIGH /\ ~user_approved THEN FALSE
    ELSE TRUE

(* PolicyEngine.get_tool_risk(tool_name), against the table given *)
get_tool_risk_default_low(allowed, tool_name) ==
    IF tool_name \in DOMAIN allowed THEN allowed[tool_name] ELSE LOW

get_tool_risk(allowed, tool_name) ==
    IF tool_name \in DOMAIN allowed THEN allowed[tool_name] ELSE CRITICAL

(* The calls whose results are compared over a run. *)
WatchedCalls ==
    {<<"phone_call", TRUE>>, <<"phone_call", FALSE>>, <<"exec_shell", TRUE>>}

(* One call of check_tool on the engine.  The ghost keeps what the first *)
(* watched call returned and whether that call was made again.           *)
CheckTool_remembers_approval ==
    /\ \E tool_name \in ToolNames, user_approved \in BOOLEAN :
          LET ret == check_tool(allowed_tools, denied_tools, tool_name, user_approved)
          IN  /\ pol_call' = <<tool_name, user_approved>>
              /\ pol_ret' = ret
              /\ pol_memo' = IF pol_watch # <<tool_name, user_approved>> THEN pol_memo
                             ELSE IF pol_memo = <<>> THEN <<ret, FALSE>>
                             ELSE <<pol_memo[1], TRUE>>
              /\ allowed_tools' = IF ret /\ user_approved
                                  THEN Override(allowed_tools, tool_name, LOW)
                                  ELSE allowed_tools
    /\ UNCHANGED <<denied_tools, pol_watch, risk_call, risk_ret>>
    /\ UNCHANGED execVars
    /\ UNCHANGED watcherVars
    /\ UNCHANGED dispatchVars
    /\ UNCHANGED handlerVars
    /\ UNCHANGED platformVars

CheckTool ==
    /\ \E tool_name \in ToolNames, user_approved \in BOOLEAN :
          LET ret == check_tool(allowed_tools, denied_tools, tool_name, user_approved)
          IN  /\ pol_call' = <<tool_name, user_approved>>
              /\ pol_ret' = ret
              /\ pol_memo' = IF pol_watch # <<tool_name, user_approved>> THEN pol_memo
                             ELSE IF pol_memo = <<>> THEN <<ret, FALSE>>
                             ELSE <<pol_memo[1], TRUE>>
    /\ UNCHANGED <<allowed_tools, denied_tools, pol_watch, risk_call, risk_ret>>
    /\ UNCHANGED execVars
    /\ UNCHANGED watcherVars
    /\ UNCHANGED dispatchVars
    /\ UNCHANGED handlerVars
    /\ UNCHANGED platformVars

(* One call of get_tool_risk on the engine. *)
GetToolRisk ==
    /\ \E tool_name \in ToolNames :
          /\ risk_call' = <<tool_name>>
          /\ risk_ret' = get_tool_risk(allowed_tools, tool_name)
    /\ UNCHANGED <<allowed_tools, denied_tools, pol_call, pol_ret, pol_watch, pol_memo>>
    /\ UNCHANGED execVars
    /\ UNCHANGED watcherVars
    /\ UNCHANGED dispatchVars
    /\ UNCHANGED handlerVars
    /\ UNCHANGED platformVars

----------------------------------------------------------------------------
(* ToolExecutor.  A ToolCall is modelled by its tool name and by what the     *)
(* bound function does when it is called with the call's params:              *)
(*   "ok"         returns a dict with success = True                          *)
(*   "fail"       returns a dict with success = False                         *)
(*   "no_success" returns a dict without a "success" key                      *)
(*   "raises"     raises (a TypeError on a parameter mismatch included)       *)
(*   "malformed"  returns a value with no .get (None, a list, ...)            *)
Behaviours == {"ok", "fail", "no_success", "raises", "malformed"}

MaxPlanLen == 3

(* Registered and not allow-listed, registered and allow-listed, deny-listed  *)
(* and unregistered, allow-listed HIGH and unregistered.                      *)
PlanTools == {"open_app", "send_sms", "exec_shell", "phone_call"}

ToolCall == [tool : PlanTools, behaviour : Behaviours]

Plans == UNION {[1..n -> ToolCall] : n \in 0..MaxPlanLen}

(* ToolRegistry.get_tool: the bound function, None (FALSE) for an unknown name *)
get_tool(name) == name \in RegisteredTools

(* ToolExecutor.execute_tool: the returned dict, with called = TRUE when the  *)
(* bound function was invoked; kind = "raised" stands for an exception that   *)
(* leaves execute_tool instead of a returned dict.                            *)
execute_tool_no_try(tool_call) ==
    IF ~get_tool(tool_call.tool)
    THEN [success |-> FALSE, tool |-> tool_call.tool, kind |-> "unknown", called |-> FALSE]
    ELSE CASE tool_call.behaviour = "ok" ->
                [success |-> TRUE, tool |-> tool_call.tool, kind |-> "result", called |-> TRUE]
           [] tool_call.behaviour \in {"fail", "no_success"} ->
                [success |-> FALSE, tool |-> tool_call.tool, kind |-> "result", called |-> TRUE]
           [] OTHER ->
                [success |-> FALSE, tool |-> tool_call.tool, kind |-> "raised", called |-> TRUE]

execute_tool(tool_call) ==
    IF ~get_tool(tool_call.tool)
    THEN [success |-> FALSE, tool |-> tool_call.tool, kind |-> "unknown", called |-> FALSE]
    ELSE CASE tool_call.behaviour = "ok" ->
                [success |-> TRUE, tool |-> tool_call.tool, kind |-> "result", called |-> TRUE]
           [] tool_call.behaviour \in {"fail", "no_success"} ->
                [success |-> FALSE, tool |-> tool_call.tool, kind |-> "result", called |-> TRUE]
           [] OTHER ->
                [success |-> FALSE, tool |-> tool_call.tool, kind |-> "error", called |-> TRUE]

(* ToolExecutor.execute_plan: the loop over tool_calls from index i on, with  *)
(* the results and the invoked tools accumulated so far.                      *)
RECURSIVE plan_loop_no_break(_, _, _, _)
plan_loop_no_break(tool_calls, i, res, inv) ==
    IF i > Len(tool_calls) THEN [results |-> res, invoked |-> inv, raised |-> FALSE]
    ELSE LET result == execute_tool(tool_calls[i])
             inv2 == IF result.called THEN Append(inv, tool_calls[i].tool) ELSE inv
         IN  IF result.kind = "raised"
             THEN [results |-> <<>>, invoked |-> inv2, raised |-> TRUE]
             ELSE plan_loop_no_break(tool_calls, i + 1, Append(res, result), inv2)

RECURSIVE plan_loop(_, _, _, _)
plan_loop(tool_calls, i, res, inv) ==
    IF i > Len(tool_calls) THEN [results |-> res, invoked |-> inv, raised |-> FALSE]
    ELSE LET result == execute_tool(tool_calls[i])
             inv2 == IF result.called THEN Append(inv, tool_calls[i].tool) ELSE inv
         IN  IF result.kind = "raised"
             THEN [results |-> <<>>, invoked |-> inv2, raised |-> TRUE]
             ELSE IF ~result.success
             THEN [results |-> Append(res, result), invoked |-> inv2, raised |-> FALSE]
             ELSE plan_loop(tool_calls, i + 1, Append(res, result), inv2)

execute_plan(tool_calls) == plan_loop(tool_calls, 1, <<>>, <<>>)

(* One call of ToolExecutor.execute_tool.  The executor keeps nothing from  *)
(* one call to the next, so each call is taken from the constructed state.  *)
ExecuteTool ==
    /\ exec_op = "none"
    /\ \E tool_call \in ToolCall :
          LET result == execute_tool(tool_call)
          IN  /\ plan' = <<tool_call>>
              /\ results' = IF result.kind = "raised" THEN <<>> ELSE <<result>>
              /\ invoked' = IF result.called THEN <<tool_call.tool>> ELSE <<>>
              /\ raised' = (result.kind = "raised")
    /\ exec_op' = "execute_tool"
    /\ UNCHANGED policyVars
    /\ UNCHANGED watcherVars
    /\ UNCHANGED dispatchVars
    /\ UNCHANGED handlerVars
    /\ UNCHANGED platformVars

(* One call of ToolExecutor.execute_plan. *)
ExecutePlan ==
    /\ exec_op = "none"
    /\ \E tool_calls \in Plans :
          LET out == execute_plan(tool_calls)
          IN  /\ plan' = tool_calls
              /\ results' = out.results
              /\ invoked' = out.invoked
              /\ raised' = out.raised
    /\ exec_op' = "execute_plan"
    /\ UNCHANGED policyVars
    /\ UNCHANGED watcherVars
    /\ UNCHANGED dispatchVars
    /\ UNCHANGED handlerVars
    /\ UNCHANGED platformVars

----------------------------------------------------------------------------
(* Watcher._monitor_calls.  Time is counted in ticks; a poll follows the      *)
(* previous one by the one-second sleep plus the time the iteration took.     *)
TicksPerSecond == 2
MaxTime == 44
MaxQueue == 3
AutoAnswerSeconds == 20

Callers == {"X", "Y"}

Spacings == {TicksPerSecond, TicksPerSecond + 1}

NoCalls == [c \in {} |-> 0]

(* timedelta.seconds of a difference of two datetimes given in ticks: whole   *)
(* seconds, the days left out.                                                *)
seconds(delta) == (delta \div TicksPerSecond) % (24 * 60 * 60)

(* dict.get of a flag of call_info: "None" when the key is absent *)
Flags == {"None", "True", "False"}

truthy(flag) == flag = "True"

(* Watcher._calculate_call_priority, in hundredths *)
calculate_call_priority_no_spam(call_info) ==
    IF truthy(call_info.is_contact) THEN 80
    ELSE 50

calculate_call_priority(call_info) ==
    IF truthy(call_info.is_contact) THEN 80
    ELSE IF truthy(call_info.is_spam) THEN 10
    ELSE 50

(* Watcher._check_call_status for a ringing call: number, name and state, *)
(* no other key.                                                          *)
check_call_status(call_id) ==
    [number |-> call_id, name |-> "Unknown", is_contact |-> "None", is_spam |-> "None"]

CallEvent(call_id) ==
    [type |-> "call", number |-> call_id, duration |-> 0,
     priority |-> calculate_call_priority(check_call_status(call_id))]

AutoAnswerEvent(call_id, duration) ==
    [type |-> "call_auto_answer", number |-> call_id, duration |-> duration,
     priority |-> 90]

(* The body of one iteration of the loop at time t, _check_call_status having *)
(* returned call_info ("none" for None): the new active_calls and the events  *)
(* put on the queue.                                                          *)
monitor_calls_restart(calls, call_info, t) ==
    IF call_info # "none"
    THEN [active_calls |-> [c \in DOMAIN calls \cup {call_info} |->
                               IF c = call_info THEN t ELSE calls[c]],
          put |-> <<CallEvent(call_info)>>]
    ELSE [active_calls |-> NoCalls, put |-> <<>>]

monitor_calls_iteration(calls, call_info, t) ==
    IF call_info # "none"
    THEN IF call_info \notin DOMAIN calls
         THEN [active_calls |-> [c \in DOMAIN calls \cup {call_info} |->
                                    IF c = call_info THEN t ELSE calls[c]],
               put |-> <<CallEvent(call_info)>>]
         ELSE LET duration == seconds(t - calls[call_info])
              IN  IF duration = AutoAnswerSeconds
                  THEN [active_calls |-> calls,
                        put |-> <<AutoAnswerEvent(call_info, duration)>>]
                  ELSE [active_calls |-> calls, put |-> <<>>]
    ELSE [active_calls |-> NoCalls, put |-> <<>>]

(* One iteration of _monitor_calls: the sleep ends, the call status is polled *)
(* and the body runs.                                                         *)
MonitorCalls ==
    /\ \E d \in Spacings, call_info \in Callers \cup {"none"} :
          LET t == now + d
              out == monitor_calls_iteration(active_calls, call_info, t)
              auto == IF out.put # <<>> /\ out.put[1].type = "call_auto_answer" THEN 1 ELSE 0
              same == call_info = last_poll
          IN  /\ t <= MaxTime
              /\ Len(event_queue) + Len(out.put) <= MaxQueue
              /\ now' = t
              /\ active_calls' = out.active_calls
              /\ event_queue' = event_queue \o out.put
              /\ last_poll' = call_info
              /\ run_start' = IF call_info = "none" THEN -1
                              ELSE IF same THEN run_start ELSE t
              /\ auto_count' = IF call_info = "none" THEN 0
                               ELSE IF same THEN auto_count + auto ELSE auto
              /\ short_call' = (\/ short_call
                                \/ /\ last_poll # "none"
                                   /\ ~same
                                   /\ t - run_start < AutoAnswerSeconds * TicksPerSecond
                                   /\ auto_count > 0)
    /\ UNCHANGED policyVars
    /\ UNCHANGED execVars
    /\ UNCHANGED dispatchVars
    /\ UNCHANGED handlerVars
    /\ UNCHANGED platformVars

----------------------------------------------------------------------------
(* Watcher: register_handler, start, the three monitoring loops as producers *)
(* of events, _process_events (the dispatcher) and the handler tasks it      *)
(* creates.  The tasks run on one event loop: a task runs from one           *)
(* suspension point to the next without interruption.  The monitoring loops  *)
(* suspend only in asyncio.sleep; the dispatcher suspends only in            *)
(* event_queue.get() on an empty queue.                                      *)
MaxEvents == 2
MaxHandlers == 3

Producers == {"calls", "notifications", "time"}

(* The events a monitoring loop puts: type and priority (in hundredths), one *)
(* of each type per loop.                                                    *)
Produced(p) ==
    CASE p = "calls" -> {[type |-> "call", priority |-> 50],
                         [type |-> "call_auto_answer", priority |-> 90]}
      [] p = "notifications" -> {[type |-> "notification", priority |-> 30]}
      [] p = "time" -> {[type |-> "calendar_urgent", priority |-> 95]}

(* Handlers a caller may register: a coroutine function that completes, one  *)
(* whose body raises, and a plain function that raises when it is called.    *)
HandlerIds == {"h_ok", "h_async_raises", "h_sync_raises"}

(* The handlers AuraEngine.initialize registers (all coroutine functions). *)
EngineHandlers ==
    [k \in {"call", "call_auto_answer", "notification"} |->
        CASE k = "call" -> <<"_on_call">>
          [] k = "call_auto_answer" -> <<"_on_auto_answer">>
          [] k = "notification" -> <<"_on_notification">>]

RegisterKinds == {"call", "notification"}

RaisesWhenCalled(h) == h = "h_sync_raises"
RaisesInTask(h) == h = "h_async_raises"

NoHandlers == [k \in {} |-> <<>>]

(* Watcher.register_handler *)
register_handler(handlers, event_type, handler) ==
    [k \in DOMAIN handlers \cup {event_type} |->
        IF k = event_type
        THEN IF k \in DOMAIN handlers THEN Append(handlers[k], handler) ELSE <<handler>>
        ELSE handlers[k]]

(* self.event_handlers.get(event.type, []) *)
handlers_for(handlers, event_type) ==
    IF event_type \in DOMAIN handlers THEN handlers[event_type] ELSE <<>>

Registrations(handlers) ==
    LET RECURSIVE Sum(_)
        Sum(ks) == IF ks = {} THEN 0
                   ELSE LET k == CHOOSE x \in ks : TRUE
                        IN  Len(handlers[k]) + Sum(ks \ {k})
    IN  Sum(DOMAIN handlers)

(* asyncio.Queue.get on a queue that holds an item: the oldest item. *)
queue_get_by_priority(q) ==
    LET i == CHOOSE i \in 1..Len(q) :
                 /\ \A j \in 1..Len(q) : q[j].priority <= q[i].priority
                 /\ \A j \in 1..(i - 1) : q[j].priority < q[i].priority
    IN  [item |-> q[i], rest |-> SubSeq(q, 1, i - 1) \o SubSeq(q, i + 1, Len(q))]

queue_get_lossy(q) ==
    [item |-> Head(q), rest |-> IF Len(q) > 1 THEN Tail(Tail(q)) ELSE Tail(q)]

queue_get(q) == [item |-> Head(q), rest |-> Tail(q)]

(* The loop over the handlers of one event (watcher.py:211-215), from the    *)
(* i-th handler on.  st holds event_counts, tasks, dispatched, handler_calls.*)
(* handler(event) is called; a coroutine function returns a coroutine, for   *)
(* which a task is created; an exception of the call is caught and logged.   *)
RECURSIVE fan_out_no_try(_, _, _, _)
fan_out_no_try(handlers, i, event, st) ==
    IF i > Len(handlers) THEN st
    ELSE LET call == [handler |-> handlers[i], id |-> event.id]
             st2 == [st EXCEPT !.handler_calls = Append(@, call)]
         IN  IF RaisesWhenCalled(handlers[i])
             THEN st2
             ELSE fan_out_no_try(handlers, i + 1, event,
                                 [st2 EXCEPT !.tasks = Append(@, call)])

RECURSIVE fan_out(_, _, _, _)
fan_out(handlers, i, event, st) ==
    IF i > Len(handlers) THEN st
    ELSE LET call == [handler |-> handlers[i], id |-> event.id]
             st2 == [st EXCEPT !.handler_calls = Append(@, call)]
         IN  IF RaisesWhenCalled(handlers[i])
             THEN fan_out(handlers, i + 1, event, st2)
             ELSE fan_out(handlers, i + 1, event, [st2 EXCEPT !.tasks = Append(@, call)])

(* The body of one iteration of _process_events for the event taken         *)
(* (watcher.py:203-217).                                                    *)
process_event(handlers, st, event) ==
    LET counted == [k \in DOMAIN st.event_counts \cup {event.type} |->
                       IF k = event.type
                       THEN (IF k \in DOMAIN st.event_counts
                             THEN st.event_counts[k] ELSE 0) + 1
                       ELSE st.event_counts[k]]
        taken == [st EXCEPT !.event_counts = counted,
                            !.dispatched = Append(@, event)]
    IN  fan_out(handlers_for(handlers, event.type), 1, event, taken)

(* _process_events from the test of self.running on: the loop runs until it *)
(* finds the flag cleared (it returns) or the queue empty (it suspends in   *)
(* get).                                                                    *)
RECURSIVE dispatcher_loop_unprotected(_, _, _, _)
dispatcher_loop_unprotected(handlers, q, st, run) ==
    IF ~run THEN [pc |-> "exited", queue |-> q, st |-> st]
    ELSE IF q = <<>> THEN [pc |-> "waiting", queue |-> q, st |-> st]
    ELSE LET g == queue_get(q)
             hs == handlers_for(handlers, g.item.type)
         IN  IF \E i \in 1..Len(hs) : RaisesWhenCalled(hs[i])
             THEN [pc |-> "crashed", queue |-> g.rest,
                   st |-> process_event(handlers, st, g.item)]
             ELSE dispatcher_loop_unprotected(handlers, g.rest,
                                              process_event(handlers, st, g.item), run)

RECURSIVE dispatcher_loop(_, _, _, _)
dispatcher_loop(handlers, q, st, run) ==
    IF ~run THEN [pc |-> "exited", queue |-> q, st |-> st]
    ELSE IF q = <<>> THEN [pc |-> "waiting", queue |-> q, st |-> st]
    ELSE LET g == queue_get(q)
         IN  dispatcher_loop(handlers, g.rest, process_event(handlers, st, g.item), run)

(* The dispatcher resumed in get(): it takes an event whatever the flag says *)
(* by now, processes it and goes back to the test of the flag.               *)
dispatcher_resume(handlers, q, st, run) ==
    LET g == queue_get(q)
    IN  dispatcher_loop(handlers, g.rest, process_event(handlers, st, g.item), run)

DispatchState ==
    [event_counts |-> event_counts, tasks |-> tasks,
     dispatched |-> dispatched, handler_calls |-> handler_calls]

(* Watcher.register_handler, called before the watcher is started. *)
RegisterHandler ==
    /\ disp_pc = "not_started"
    /\ Registrations(event_handlers) < MaxHandlers
    /\ \E event_type \in RegisterKinds, handler \in HandlerIds :
          event_handlers' = register_handler(event_handlers, event_type, handler)
    /\ UNCHANGED <<running, event_counts, disp_pc, prod_pc, tasks, put_count,
                   dispatched, handler_calls, started, llm_running, stop_pc>>
    /\ UNCHANGED <<policyVars, execVars, watcherVars, handlerVars, platformVars>>

(* Watcher.start: the flag is set and the four tasks are created. *)
WatcherStart ==
    /\ disp_pc = "not_started"
    /\ running' = TRUE
    /\ disp_pc' = "scheduled"
    /\ prod_pc' = [p \in Producers |-> "sleeping"]
    /\ UNCHANGED <<event_handlers, event_counts, tasks, put_count,
                   dispatched, handler_calls, started, llm_running, stop_pc>>
    /\ UNCHANGED <<policyVars, execVars, watcherVars, handlerVars, platformVars>>

(* An iteration of a monitoring loop that puts an event. *)
Produce(p) ==
    /\ prod_pc[p] = "sleeping"
    /\ running
    /\ put_count < MaxEvents
    /\ \E e \in Produced(p) :
          event_queue' = Append(event_queue,
                                [type |-> e.type, priority |-> e.priority,
                                 id |-> put_count + 1])
    /\ put_count' = put_count + 1
    /\ UNCHANGED <<running, event_handlers, event_counts, disp_pc, prod_pc, tasks,
                   dispatched, handler_calls, started, llm_running, stop_pc>>
    /\ UNCHANGED <<policyVars, execVars, callVars, handlerVars, platformVars>>

ProduceCall == Produce("calls")
ProduceNotification == Produce("notifications")
ProduceCalendar == Produce("time")

(* A monitoring loop wakes from its sleep, finds the flag cleared and returns. *)
ProducerExit ==
    /\ ~running
    /\ \E p \in Producers :
          /\ prod_pc[p] = "sleeping"
          /\ prod_pc' = [prod_pc EXCEPT ![p] = "exited"]
    /\ UNCHANGED <<running, event_handlers, event_counts, disp_pc, tasks, put_count,
                   dispatched, handler_calls, started, llm_running, stop_pc>>
    /\ UNCHANGED <<policyVars, execVars, watcherVars, handlerVars, platformVars>>

(* The dispatcher task can run: it has not run yet, or it is suspended in   *)
(* get() and the queue holds an event.                                      *)
DispatcherReady ==
    \/ disp_pc = "scheduled"
    \/ disp_pc = "waiting" /\ event_queue # <<>>

(* The dispatcher task runs: for the first time, or resumed in get() by an  *)
(* event put on the queue.                                                  *)
DispatcherRun ==
    /\ DispatcherReady
    /\ LET out == IF disp_pc = "scheduled"
                  THEN dispatcher_loop(event_handlers, event_queue, DispatchState, running)
                  ELSE dispatcher_resume(event_handlers, event_queue, DispatchState, running)
       IN  /\ disp_pc' = out.pc
           /\ event_queue' = out.queue
           /\ event_counts' = out.st.event_counts
           /\ tasks' = out.st.tasks
           /\ dispatched' = out.st.dispatched
           /\ handler_calls' = out.st.handler_calls
    /\ UNCHANGED <<running, event_handlers, prod_pc, put_count, started, llm_running, stop_pc>>
    /\ UNCHANGED <<policyVars, execVars, callVars, handlerVars, platformVars>>

(* The event loop runs the oldest handler task. *)
TaskRun ==
    /\ tasks # <<>>
    /\ started' = Append(started, Head(tasks))
    /\ tasks' = Tail(tasks)
    /\ UNCHANGED <<running, event_handlers, event_counts, disp_pc, prod_pc, put_count,
                   dispatched, handler_calls, llm_running, stop_pc>>
    /\ UNCHANGED <<policyVars, execVars, watcherVars, handlerVars, platformVars>>

(* AuraEngine.stop up to its first suspension, await self.telegram_app.stop(). *)
EngineStopBegin ==
    /\ stop_pc = "idle"
    /\ disp_pc # "not_started"
    /\ stop_pc' = "telegram_stop"
    /\ UNCHANGED <<running, event_handlers, event_counts, disp_pc, prod_pc, tasks, put_count,
                   dispatched, handler_calls, started, llm_running>>
    /\ UNCHANGED <<policyVars, execVars, watcherVars, handlerVars, platformVars>>

(* The rest of AuraEngine.stop (all of AuraV2.stop): Watcher.stop clears the *)
(* flag, then LLMServer.stop terminates the server.                          *)
EngineStopFinish ==
    /\ stop_pc = "telegram_stop"
    /\ running' = FALSE
    /\ llm_running' = FALSE
    /\ stop_pc' = "stopped"
    /\ UNCHANGED <<event_handlers, event_counts, disp_pc, prod_pc, tasks, put_count,
                   dispatched, handler_calls, started>>
    /\ UNCHANGED <<policyVars, execVars, watcherVars, handlerVars, platformVars>>

----------------------------------------------------------------------------
(* CallHandler: the should-answer rule, handle_incoming_call, the          *)
(* conversation turns and end_call, with the LLM server's generate.        *)
MaxCalls == 1
MaxTurns == 2
MaxEnds == 2

None == "None"

(* Urgency in hundredths. *)
Urgencies == {30, 40, 50, 51, 70, 71, 80}
Hours == 0..23
Relationships == {"family", "work", "friend", "acquaintance", "unknown"}

(* Recalled context: none, a text without the word, texts with it. *)
RecentContexts ==
    {"", "Recent interactions: - Called yesterday about lunch",
     "Recent interactions: - I need the report today",
     "Recent interactions: - NEED YOU TO CALL BACK"}

(* str.lower on the texts above *)
lower(text) ==
    CASE text = "Recent interactions: - Called yesterday about lunch" ->
            "recent interactions: - called yesterday about lunch"
      [] text = "Recent interactions: - I need the report today" ->
            "recent interactions: - i need the report today"
      [] text = "Recent interactions: - NEED YOU TO CALL BACK" ->
            "recent interactions: - need you to call back"
      [] OTHER -> text

(* 'need' in text, on the lowered texts above *)
contains_need(text) ==
    text \in {"recent interactions: - i need the report today",
              "recent interactions: - need you to call back"}

Contexts ==
    [is_contact : BOOLEAN, is_spam : BOOLEAN, relationship : Relationships,
     recent_context : RecentContexts, urgency : Urgencies]

(* CallHandler._should_answer_call; hour is datetime.now().hour *)
should_answer_call_family_first(context, hour) ==
    IF context.relationship = "family" /\ context.urgency > 70 THEN TRUE
    ELSE IF context.is_spam THEN FALSE
    ELSE IF context.relationship = "work" /\ 9 <= hour /\ hour <= 18 THEN TRUE
    ELSE IF context.recent_context # "" /\ contains_need(lower(context.recent_context))
         THEN TRUE
    ELSE context.is_contact /\ context.urgency > 50

should_answer_call_short_day(context, hour) ==
    IF context.is_spam THEN FALSE
    ELSE IF context.relationship = "family" /\ context.urgency > 70 THEN TRUE
    ELSE IF context.relationship = "work" /\ 9 <= hour /\ hour < 18 THEN TRUE
    ELSE IF context.recent_context # "" /\ contains_need(lower(context.recent_context))
         THEN TRUE
    ELSE context.is_contact /\ context.urgency > 50

should_answer_call(context, hour) ==
    IF context.is_spam THEN FALSE
    ELSE IF context.relationship = "family" /\ context.urgency > 70 THEN TRUE
    ELSE IF context.relationship = "work" /\ 9 <= hour /\ hour <= 18 THEN TRUE
    ELSE IF context.recent_context # "" /\ contains_need(lower(context.recent_context))
         THEN TRUE
    ELSE context.is_contact /\ context.urgency > 50

(* _should_answer_call applied to a context. *)
ShouldAnswerCall ==
    /\ sa_call # <<>>
    /\ sa_ret = <<>>
    /\ sa_ret' = <<should_answer_call(sa_call[1], sa_call[2])>>
    /\ UNCHANGED <<sa_call, active_call, answered, declined, spoken, stored, hic_ret>>
    /\ UNCHANGED <<policyVars, execVars, watcherVars, dispatchVars, platformVars>>

(* What an LLMServer.generate call meets. *)
LlmOutcomes == {"unavailable", "http_error", "exception", "text", "blank", "no_content"}

(* str.strip on the texts the server returns *)
strip(text) ==
    CASE text = " Hello, this is Aura. " -> "Hello, this is Aura."
      [] text = "  " -> ""
      [] OTHER -> text

(* LLMServer.generate *)
generate(outcome) ==
    CASE outcome = "unavailable" -> "Error: LLM server not available"
      [] outcome = "http_error" -> "Error: Generation failed"
      [] outcome = "exception" -> "Error: connection refused"
      [] outcome = "text" -> strip(" Hello, this is Aura. ")
      [] outcome = "blank" -> strip("  ")
      [] outcome = "no_content" -> strip("")

(* The caller names of an incoming call: None when call_info has none,     *)
(* "Unknown" when the watcher had none.                                    *)
Names == {None, "Unknown", "Papa", "Office Boss", "Ravi"}
Durations == {0, 19, 20, 21}

(* memory.recall(name or number, limit=5): the number of items found and *)
(* the context text they give.                                           *)
Recalls ==
    {[count |-> 0, text |-> ""]} \cup
    [count : {1, 5}, text : RecentContexts \ {""}]

(* CallHandler._determine_relationship; the name tests are substring tests *)
(* on the lowered name.                                                    *)
determine_relationship(name, recent) ==
    IF name = None THEN "unknown"
    ELSE IF name \in {"Papa"} THEN "family"
    ELSE IF name \in {"Office Boss"} THEN "work"
    ELSE IF recent.count > 0 /\ recent.count > 5 THEN "friend"
    ELSE "acquaintance"

(* CallHandler._check_spam *)
check_spam(number) == FALSE

calculate_urgency_work_low(relationship) ==
    CASE relationship = "family" -> 80
      [] relationship = "work" -> 50
      [] relationship = "friend" -> 50
      [] relationship = "acquaintance" -> 40
      [] OTHER -> 30

(* CallHandler._calculate_urgency *)
calculate_urgency(relationship) ==
    CASE relationship = "family" -> 80
      [] relationship = "work" -> 70
      [] relationship = "friend" -> 50
      [] relationship = "acquaintance" -> 40
      [] OTHER -> 30

(* CallHandler._build_call_context *)
build_call_context(name, recent) ==
    LET relationship == determine_relationship(name, recent)
    IN  [caller_name |-> name,
         is_contact |-> name # None,
         is_spam |-> check_spam("number"),
         relationship |-> relationship,
         recent_context |-> IF recent.count > 0 THEN recent.text ELSE "",
         urgency |-> calculate_urgency(relationship)]

RuleContext(context) ==
    [is_contact |-> context.is_contact, is_spam |-> context.is_spam,
     relationship |-> context.relationship,
     recent_context |-> context.recent_context, urgency |-> context.urgency]

IncomingCall_no_threshold(name, duration, recent, hour, outcome) ==
    LET context == build_call_context(name, recent)
        should_answer == should_answer_call(RuleContext(context), hour)
        greeting == strip(generate(outcome))
    IN  /\ hic_call' = <<[name |-> name, duration |-> duration, recent |-> recent,
                          hour |-> hour]>>
        /\ hic_count' = hic_count + 1
        /\ llm_calls' = IF should_answer THEN llm_calls + 1 ELSE llm_calls
        /\ UNCHANGED <<conv_count, end_count, boss_notices>>
        /\ IF should_answer
           THEN /\ answered' = Append(answered,
                       [name |-> name, duration |-> duration,
                        should_answer |-> should_answer])
                /\ spoken' = Append(spoken, greeting)
                /\ active_call' =
                       <<[context |-> context,
                          transcript |-> <<[who |-> "AURA", text |-> greeting]>>]>>
                /\ stored' = Append(stored,
                       [type |-> "call_answered", text |-> greeting])
                /\ hic_ret' = <<TRUE>>
                /\ UNCHANGED declined
           ELSE /\ declined' = declined + 1
                /\ hic_ret' = <<FALSE>>
                /\ UNCHANGED <<active_call, answered, spoken, stored>>

(* _build_call_context applied to a call_info and to what memory.recall *)
(* finds; the context is kept for the rule, with the hour of the day.   *)
BuildCallContext ==
    /\ sa_call = <<>>
    /\ \E name \in Names, recent \in Recalls, hour \in Hours :
          sa_call' = <<RuleContext(build_call_context(name, recent)), hour>>
    /\ UNCHANGED <<sa_ret, active_call, answered, declined, spoken, stored, hic_ret>>
    /\ UNCHANGED <<policyVars, execVars, watcherVars, dispatchVars, platformVars>>

(* CallHandler.handle_incoming_call with _answer_call and _generate_greeting, *)
(* for one call_info, what memory.recall finds, the hour and what the LLM     *)
(* call meets.                                                                *)
IncomingCall(name, duration, recent, hour, outcome) ==
    LET context == build_call_context(name, recent)
        should_answer == should_answer_call(RuleContext(context), hour)
        greeting == strip(generate(outcome))
    IN  /\ hic_call' = <<[name |-> name, duration |-> duration, recent |-> recent,
                          hour |-> hour]>>
        /\ hic_count' = hic_count + 1
        /\ llm_calls' = IF duration >= 20 /\ should_answer THEN llm_calls + 1 ELSE llm_calls
        /\ UNCHANGED <<conv_count, end_count, boss_notices>>
        /\ IF duration >= 20
           THEN IF should_answer
                THEN /\ answered' = Append(answered,
                            [name |-> name, duration |-> duration,
                             should_answer |-> should_answer])
                     /\ spoken' = Append(spoken, greeting)
                     /\ active_call' =
                            <<[context |-> context,
                               transcript |-> <<[who |-> "AURA", text |-> greeting]>>]>>
                     /\ stored' = Append(stored,
                            [type |-> "call_answered", text |-> greeting])
                     /\ hic_ret' = <<TRUE>>
                     /\ UNCHANGED declined
                ELSE /\ declined' = declined + 1
                     /\ hic_ret' = <<FALSE>>
                     /\ UNCHANGED <<active_call, answered, spoken, stored>>
           ELSE /\ hic_ret' = <<FALSE>>
                /\ UNCHANGED <<active_call, answered, declined, spoken, stored>>

HandleIncomingCall ==
    /\ hic_count < MaxCalls
    /\ \E name \in Names, duration \in Durations, recent \in Recalls,
          hour \in {8, 12}, outcome \in LlmOutcomes :
          IncomingCall(name, duration, recent, hour, outcome)
    /\ UNCHANGED <<sa_call, sa_ret>>
    /\ UNCHANGED <<policyVars, execVars, watcherVars, dispatchVars, restVars>>

(* What the caller says in a turn. *)
Utterances == {"Is he there?", "Tell him I called"}

(* AuraEngine._on_auto_answer: the data of a call_auto_answer event is handed *)
(* to handle_incoming_call: the name the watcher kept, duration 20.           *)
OnAutoAnswer ==
    /\ hic_count < MaxCalls
    /\ \E name \in {"Unknown", "Papa", "Ravi"}, outcome \in {"text", "unavailable"} :
          IncomingCall(name, AutoAnswerSeconds, [count |-> 0, text |-> ""], 12, outcome)
    /\ UNCHANGED <<sa_call, sa_ret>>
    /\ UNCHANGED <<policyVars, execVars, watcherVars, dispatchVars, restVars>>

HandleCallConversation_response_first ==
    /\ conv_count < MaxTurns
    /\ conv_count' = conv_count + 1
    /\ IF active_call = <<>>
       THEN UNCHANGED <<active_call, spoken, stored, llm_calls>>
       ELSE \E transcript \in Utterances, outcome \in LlmOutcomes :
               LET response == generate(outcome)
               IN  /\ llm_calls' = llm_calls + 1
                   /\ spoken' = Append(spoken, response)
                   /\ active_call' =
                          [active_call EXCEPT ![1].transcript =
                              @ \o <<[who |-> "AURA", text |-> response],
                                     [who |-> "CALLER", text |-> transcript]>>]
                   /\ stored' = Append(stored,
                                       [type |-> "call_transcript", text |-> response])
    /\ UNCHANGED <<sa_call, sa_ret, answered, declined, hic_ret>>
    /\ UNCHANGED <<hic_call, hic_count, end_count, boss_notices>>
    /\ UNCHANGED <<policyVars, execVars, watcherVars, dispatchVars, restVars>>

EndCall_keeps_call ==
    /\ end_count < MaxEnds
    /\ end_count' = end_count + 1
    /\ IF active_call = <<>>
       THEN UNCHANGED <<active_call, stored, llm_calls, boss_notices>>
       ELSE /\ \E outcome \in LlmOutcomes :
                  LET summary == generate(outcome)
                  IN  stored' = Append(stored, [type |-> "call_summary", text |-> summary])
            /\ llm_calls' = llm_calls + 1
            /\ boss_notices' = boss_notices + 1
            /\ UNCHANGED active_call
    /\ UNCHANGED <<sa_call, sa_ret, answered, declined, spoken, hic_ret>>
    /\ UNCHANGED <<hic_call, hic_count, conv_count>>
    /\ UNCHANGED <<policyVars, execVars, watcherVars, dispatchVars, restVars>>

(* CallHandler.handle_call_conversation *)
HandleCallConversation ==
    /\ conv_count < MaxTurns
    /\ conv_count' = conv_count + 1
    /\ IF active_call = <<>>
       THEN UNCHANGED <<active_call, spoken, stored, llm_calls>>
       ELSE \E transcript \in Utterances, outcome \in LlmOutcomes :
               LET response == generate(outcome)
               IN  /\ llm_calls' = llm_calls + 1
                   /\ spoken' = Append(spoken, response)
                   /\ active_call' =
                          [active_call EXCEPT ![1].transcript =
                              @ \o <<[who |-> "CALLER", text |-> transcript],
                                     [who |-> "AURA", text |-> response]>>]
                   /\ stored' = Append(stored,
                                       [type |-> "call_transcript", text |-> response])
    /\ UNCHANGED <<sa_call, sa_ret, answered, declined, hic_ret>>
    /\ UNCHANGED <<hic_call, hic_count, end_count, boss_notices>>
    /\ UNCHANGED <<policyVars, execVars, watcherVars, dispatchVars, restVars>>

(* CallHandler.end_call with _summarize_call and _notify_boss *)
EndCall ==
    /\ end_count < MaxEnds
    /\ end_count' = end_count + 1
    /\ IF active_call = <<>>
       THEN UNCHANGED <<active_call, stored, llm_calls, boss_notices>>
       ELSE /\ \E outcome \in LlmOutcomes :
                  LET summary == generate(outcome)
                  IN  stored' = Append(stored, [type |-> "call_summary", text |-> summary])
            /\ llm_calls' = llm_calls + 1
            /\ boss_notices' = boss_notices + 1
            /\ active_call' = <<>>
    /\ UNCHANGED <<sa_call, sa_ret, answered, declined, spoken, hic_ret>>
    /\ UNCHANGED <<hic_call, hic_count, conv_count>>
    /\ UNCHANGED <<policyVars, execVars, watcherVars, dispatchVars, restVars>>

----------------------------------------------------------------------------
(* Watcher._calculate_call_priority applied to a call_info, and the first *)
(* iteration of _monitor_calls.                                           *)
CallInfos ==
    [number : Callers, name : {"Unknown", "Papa", "Ravi"},
     is_contact : Flags, is_spam : Flags]

CalculateCallPriority ==
    /\ prio_ret = <<>>
    /\ prio_ret' = <<calculate_call_priority(prio_call)>>
    /\ UNCHANGED <<prio_call, engineVars, secretVars, lockVars, otherVars>>
    /\ UNCHANGED <<policyVars, execVars, watcherVars, dispatchVars, handlerVars>>

FirstPoll ==
    /\ now = 0
    /\ MonitorCalls

----------------------------------------------------------------------------
(* AuraEngine: the bodies of the handlers it registers, run as tasks, and *)
(* the call monitor finding no call.                                      *)

(* The event loop runs the oldest handler task: _on_auto_answer hands the *)
(* event's data (the name the watcher kept, duration 20) to               *)
(* handle_incoming_call; _on_call and _on_notification write a log line.  *)
EngineTaskRun ==
    /\ tasks # <<>>
    /\ started' = Append(started, Head(tasks))
    /\ tasks' = Tail(tasks)
    /\ IF Head(tasks).handler = "_on_auto_answer"
       THEN \E name \in {"Unknown", "Papa"}, outcome \in {"text", "unavailable"} :
               IncomingCall(name, AutoAnswerSeconds, [count |-> 0, text |-> ""], 12, outcome)
       ELSE UNCHANGED <<active_call, answered, declined, spoken, stored, hic_ret, sessionVars>>
    /\ UNCHANGED <<sa_call, sa_ret>>
    /\ UNCHANGED <<running, event_handlers, event_counts, disp_pc, prod_pc, put_count,
                   dispatched, handler_calls, llm_running, stop_pc>>
    /\ UNCHANGED <<policyVars, execVars, watcherVars, restVars>>

(* An iteration of _monitor_calls in which no call is ringing: the tracked *)
(* calls are cleared and nothing is put on the queue.                      *)
PollNoCall ==
    /\ prod_pc["calls"] = "sleeping"
    /\ running
    /\ active_calls' = NoCalls
    /\ call_over' = (call_over \/ active_call # <<>>)
    /\ UNCHANGED <<now, event_queue, last_poll, run_start, auto_count, short_call>>
    /\ UNCHANGED <<prio_call, prio_ret, reasoning_requests, operator_notices, secretVars, lockVars, otherVars>>
    /\ UNCHANGED <<policyVars, execVars, dispatchVars, handlerVars>>

----------------------------------------------------------------------------
(* main.py: get_secret(key, config_dict, default).  A value is a string,   *)
(* "None" standing for None; a config section is None or a dict, given by  *)
(* its set of <<key, value>> entries; env is what os.getenv(key) returns.   *)
SecretKeys == {"LLM_PROVIDER", "TELEGRAM_BOT_TOKEN"}

EnvValues == {"None", "", "from_env"}

ConfigEntries(key) ==
    {{}, {<<"model_path", "sarvam-1.bin">>},
     {<<key, "from_config">>}, {<<key, "from_config">>, <<"model_path", "sarvam-1.bin">>},
     {<<key, "">>}}

ConfigDicts(key) ==
    {[is_none |-> TRUE, entries |-> {}]} \cup
    {[is_none |-> FALSE, entries |-> e] : e \in ConfigEntries(key)}

Defaults == {"None", "mock"}

(* truth value of a string or None *)
truthy_str(v) == v # "None" /\ v # ""

(* dict.get(key): None when the key is absent *)
dict_get(entries, key) ==
    IF \E e \in entries : e[1] = key
    THEN (CHOOSE e \in entries : e[1] = key)[2]
    ELSE "None"

get_secret(env_val, key, config_dict, default) ==
    IF truthy_str(env_val) THEN env_val
    ELSE IF ~config_dict.is_none /\ config_dict.entries # {}
         THEN dict_get(config_dict.entries, key)
    ELSE default

SecretCalls ==
    UNION {[env : EnvValues, key : {k}, config_dict : ConfigDicts(k), default : Defaults] :
              k \in SecretKeys}

GetSecret ==
    /\ sec_ret = <<>>
    /\ sec_ret' = <<get_secret(sec_call.env, sec_call.key, sec_call.config_dict,
                               sec_call.default)>>
    /\ UNCHANGED <<sec_call, prio_call, prio_ret, engineVars, lockVars, otherVars>>
    /\ UNCHANGED <<policyVars, execVars, watcherVars, dispatchVars, handlerVars>>

----------------------------------------------------------------------------
(* SafetySwitch: the lock file.  Its content is the text before the first   *)
(* line break (a PID) and whether a second line follows; _create_lock       *)
(* writes the PID and, on a second line, the time.                          *)
Procs == {"p1", "p2", "p3"}

(* PIDs a lock file found at start may name: a process that is gone, and a *)
(* live process that is no instance of the program.                        *)
ForeignPids == {"gone", "live"}

LockContent(pid, two_lines) == [pid |-> pid, two_lines |-> two_lines]

(* The processes os.kill(pid, 0) finds. *)
Alive(pid, pcs, exits) ==
    \/ pid = "live"
    \/ pid \in Procs /\ pcs[pid] # "not_started" /\ exits[pid] = <<>>

(* int(f.read().strip()) succeeds on a one-line file holding a PID; on the *)
(* two-line file it raises ValueError.                                     *)
int_parses(content) == ~content.two_lines

(* The exception that leaves the inner try of _create_lock (safety.py:45-54): *)
(* sys.exit(1) when the PID parses and the process is alive; ValueError and   *)
(* OSError are handled there.                                                 *)
inner_try(file, pcs, exits) ==
    IF file = <<>> THEN "none"
    ELSE IF int_parses(file[1]) /\ Alive(file[1].pid, pcs, exits) THEN "SystemExit"
    ELSE "none"

(* A bare `except:` handles every exception, SystemExit included. *)
bare_except_handles(exception) == exception \in {"SystemExit", "ValueError", "OSError"}

(* The exception that leaves the outer try (safety.py:41-56). *)
outer_try(file, pcs, exits) ==
    LET exception == inner_try(file, pcs, exits)
    IN  IF bare_except_handles(exception) THEN "none" ELSE exception

(* _create_lock up to the write: the test of the file, the read, the probe. *)
CreateLockCheck ==
    /\ \E p \in Procs :
          /\ sw_pc[p] = "not_started"
          /\ IF outer_try(lock_file, sw_pc, sw_exit) = "SystemExit"
             THEN /\ sw_pc' = [sw_pc EXCEPT ![p] = "exited"]
                  /\ sw_exit' = [sw_exit EXCEPT ![p] = <<1>>]
             ELSE /\ sw_pc' = [sw_pc EXCEPT ![p] = "checked"]
                  /\ UNCHANGED sw_exit
    /\ UNCHANGED lock_file
    /\ UNCHANGED <<prio_call, prio_ret, engineVars, secretVars, otherVars>>
    /\ UNCHANGED <<policyVars, execVars, watcherVars, dispatchVars, handlerVars>>

(* _create_lock: the write of the new lock file; the switch is constructed. *)
CreateLockWrite ==
    /\ \E p \in Procs :
          /\ sw_pc[p] = "checked"
          /\ lock_file' = <<LockContent(p, TRUE)>>
          /\ sw_pc' = [sw_pc EXCEPT ![p] = "running"]
    /\ UNCHANGED sw_exit
    /\ UNCHANGED <<prio_call, prio_ret, engineVars, secretVars, otherVars>>
    /\ UNCHANGED <<policyVars, execVars, watcherVars, dispatchVars, handlerVars>>

(* SafetySwitch.trigger_stop with cleanup: the lock file is removed and the *)
(* process exits with code 0.                                               *)
TriggerStop ==
    /\ \E p \in Procs :
          /\ sw_pc[p] = "running"
          /\ sw_pc' = [sw_pc EXCEPT ![p] = "exited"]
          /\ sw_exit' = [sw_exit EXCEPT ![p] = <<0>>]
    /\ lock_file' = <<>>
    /\ UNCHANGED <<prio_call, prio_ret, engineVars, secretVars, otherVars>>
    /\ UNCHANGED <<policyVars, execVars, watcherVars, dispatchVars, handlerVars>>

----------------------------------------------------------------------------
(* AuraAgent: one message from the user, the tool the model asks for, the   *)
(* policy, the prompt on the console, the tool.                              *)
MaxMessages == 2

(* create_tools: the names of the tools the agent is constructed with. *)
AgentTools == {"phone_call", "whatsapp_send"}

Prompts == {"Hello Aura", "Call mom", "please call 1234567890", "what is on my calendar"}

(* What the user types at input(). *)
Approvals == {"y", "Y", "n", ""}

(* str.lower on the prompts and on the answers above *)
str_lower(text) ==
    CASE text = "Hello Aura" -> "hello aura"
      [] text = "Call mom" -> "call mom"
      [] text = "Y" -> "y"
      [] OTHER -> text

(* 'call' in text, on the lowered prompts above *)
contains_call(text) == text \in {"call mom", "please call 1234567890"}

(* AuraAgent._mock_llm_call *)
mock_llm_call(prompt) ==
    IF contains_call(str_lower(prompt))
    THEN [tool_call |-> TRUE, tool_name |-> "phone_call", text |-> ""]
    ELSE [tool_call |-> FALSE, tool_name |-> None,
          text |-> "I am Aura. I am running locally and securely."]

(* The policy the agent is exercised on: the constructed tables and one on *)
(* which phone_call is classified MEDIUM.                                  *)
AgentTables == PolicyTables \cup {Override(DefaultAllowed, "phone_call", MEDIUM)}

(* AuraAgent.process_message from the tool request on: what it does, in *)
(* order, and what it returns.                                          *)
process_message(allowed, denied, tools, user_message, approval) ==
    LET llm_response == mock_llm_call(user_message)
        tool_name == llm_response.tool_name
    IN  IF ~llm_response.tool_call
        THEN [steps |-> <<>>, ret |-> llm_response.text]
        ELSE IF ~check_tool(allowed, denied, tool_name, FALSE)
        THEN [steps |-> <<"check_tool">>,
              ret |-> "Security Policy: Tool is blocked."]
        ELSE IF get_tool_risk(allowed, tool_name) >= HIGH /\ str_lower(approval) # "y"
        THEN [steps |-> <<"check_tool", "get_tool_risk", "input">>,
              ret |-> "Action cancelled by user."]
        ELSE LET asked == IF get_tool_risk(allowed, tool_name) >= HIGH
                          THEN <<"check_tool", "get_tool_risk", "input">>
                          ELSE <<"check_tool", "get_tool_risk">>
             IN  IF tool_name \in tools
                 THEN [steps |-> asked \o <<"execute">>, ret |-> "Tool executed: Done"]
                 ELSE [steps |-> asked, ret |-> "Error: Tool not found."]

(* AuraAgent.__init__: ContextManager(max_history=10) *)
max_history == 10

MaxAdds == 12

add_message_pop_newest(messages, msg, limit) ==
    LET appended == Append(messages, msg)
    IN  IF Len(appended) > limit THEN SubSeq(appended, 1, Len(appended) - 1) ELSE appended

(* ContextManager.add_message: append, then pop(0) when over the limit. *)
add_message(messages, msg, limit) ==
    LET appended == Append(messages, msg)
    IN  IF Len(appended) > limit THEN Tail(appended) ELSE appended

(* The messages add_message is called with directly. *)
ContextMessages ==
    {[role |-> "user", content |-> "Hello Aura"],
     [role |-> "assistant", content |-> "I am Aura. I am running locally and securely."]}

AddMessage ==
    /\ Len(ctx_added) < MaxAdds
    /\ \E msg \in ContextMessages :
          /\ ctx_messages' = add_message(ctx_messages, msg, max_history)
          /\ ctx_added' = Append(ctx_added, msg)
    /\ UNCHANGED <<agent_call, agent_ret, agent_steps, conversation_history>>
    /\ UNCHANGED <<baseVars, navVars, bootVars>>
    /\ UNCHANGED <<policyVars, execVars, watcherVars, dispatchVars, handlerVars>>

ProcessMessage ==
    /\ Len(conversation_history) < MaxMessages
    /\ \E user_message \in Prompts, approval \in Approvals :
          LET out == process_message(allowed_tools, denied_tools, AgentTools,
                                     user_message, approval)
          IN  /\ conversation_history' = Append(conversation_history, user_message)
              /\ agent_call' = <<[user_message |-> user_message, approval |-> approval]>>
              /\ agent_steps' = out.steps
              /\ agent_ret' = out.ret
              /\ LET user == [role |-> "user", content |-> user_message]
                     assistant == [role |-> "assistant",
                                   content |-> mock_llm_call(user_message).text]
                 IN  /\ ctx_messages' = add_message(add_message(ctx_messages, user, max_history),
                                                    assistant, max_history)
                     /\ ctx_added' = ctx_added \o <<user, assistant>>
    /\ UNCHANGED <<baseVars, navVars, bootVars>>
    /\ UNCHANGED <<policyVars, execVars, watcherVars, dispatchVars, handlerVars>>

----------------------------------------------------------------------------
(* AppNavigator: the multi-step automations.  Each step is one command to   *)
(* the device, which succeeds or fails; its ActionResult is appended to the *)
(* results list.                                                            *)
Automations == {"navigate_whatsapp_to_chat", "send_whatsapp_message", "make_phone_call"}

(* AppNavigator.navigate_whatsapp_to_chat: open the app, tap search, type *)
(* the contact, tap the first result.                                     *)
navigate_whatsapp_to_chat == <<"open_app", "tap", "type", "tap">>

(* AppNavigator.send_whatsapp_message: navigate, type the message, tap send. *)
send_whatsapp_message == navigate_whatsapp_to_chat \o <<"type", "tap">>

(* AppNavigator.make_phone_call: open the dialer, type the number, tap call. *)
make_phone_call == <<"open_app", "type", "tap">>

AutomationSteps(name) ==
    CASE name = "navigate_whatsapp_to_chat" -> navigate_whatsapp_to_chat
      [] name = "send_whatsapp_message" -> send_whatsapp_message
      [] name = "make_phone_call" -> make_phone_call

(* all(r.success for r in results) *)
all_success(rs) == \A i \in 1..Len(rs) : rs[i].success

(* An automation is called. *)
StartAutomation ==
    /\ nav_op = <<>>
    /\ nav_ret = <<>>
    /\ \E name \in Automations : nav_op' = <<name>>
    /\ nav_results' = <<>>
    /\ UNCHANGED nav_ret
    /\ UNCHANGED <<baseVars, agentVars, bootVars>>
    /\ UNCHANGED <<policyVars, execVars, watcherVars, dispatchVars, handlerVars>>

(* The next statement of the automation: the command is sent to the device *)
(* and its ActionResult appended, whatever the results before it.          *)
DeviceStep ==
    /\ nav_op # <<>>
    /\ Len(nav_results) < Len(AutomationSteps(nav_op[1]))
    /\ \E success \in BOOLEAN :
          nav_results' = Append(nav_results,
                                [action |-> AutomationSteps(nav_op[1])[Len(nav_results) + 1],
                                 success |-> success])
    /\ UNCHANGED <<nav_op, nav_ret>>
    /\ UNCHANGED <<baseVars, agentVars, bootVars>>
    /\ UNCHANGED <<policyVars, execVars, watcherVars, dispatchVars, handlerVars>>

(* The automation returns its results; ToolRegistry._send_whatsapp and *)
(* _make_call report whether all of them succeeded.                    *)
AutomationReturn ==
    /\ nav_op # <<>>
    /\ Len(nav_results) = Len(AutomationSteps(nav_op[1]))
    /\ nav_ret' = <<all_success(nav_results)>>
    /\ nav_op' = <<>>
    /\ UNCHANGED nav_results
    /\ UNCHANGED <<baseVars, agentVars, bootVars>>
    /\ UNCHANGED <<policyVars, execVars, watcherVars, dispatchVars, handlerVars>>

----------------------------------------------------------------------------
(* aura_engine.py, main(): the engine is initialised, runs, and the process *)
(* exits.  Steps are taken at the granularity of the awaits: a signal is    *)
(* handled while initialize or run is under way.                            *)

(* The process exits: its tasks are gone with it. *)
ProcessExit(code) ==
    /\ exit_code' = <<code>>
    /\ boot_pc' = "exited"
    /\ running' = FALSE
    /\ disp_pc' = IF disp_pc = "not_started" THEN "not_started" ELSE "exited"
    /\ prod_pc' = [p \in Producers |->
                     IF prod_pc[p] = "not_started" THEN "not_started" ELSE "exited"]
    /\ tasks' = <<>>
    /\ UNCHANGED <<event_handlers, event_counts, put_count, dispatched, handler_calls,
                   started, llm_running, stop_pc>>
    /\ UNCHANGED <<init_ret, telegram_started, engine_running>>
    /\ UNCHANGED <<baseVars, agentVars, navVars>>
    /\ UNCHANGED <<policyVars, execVars, watcherVars, handlerVars>>

Initialize_llm_last ==
    /\ boot_pc = "constructed"
    /\ \E llm_ok \in BOOLEAN, token \in BOOLEAN :
          /\ event_handlers' = EngineHandlers
          /\ running' = TRUE
          /\ disp_pc' = "scheduled"
          /\ prod_pc' = [p \in Producers |-> "sleeping"]
          /\ telegram_started' = token
          /\ llm_running' = llm_ok
          /\ init_ret' = <<llm_ok>>
    /\ boot_pc' = "initialized"
    /\ UNCHANGED <<event_counts, tasks, put_count, dispatched, handler_calls, started, stop_pc>>
    /\ UNCHANGED <<exit_code, engine_running>>
    /\ UNCHANGED <<baseVars, agentVars, navVars>>
    /\ UNCHANGED <<policyVars, execVars, watcherVars, handlerVars>>

(* AuraEngine.initialize: llm_ok is what LLMServer.start returns, token says *)
(* whether a bot token is configured.                                        *)
Initialize ==
    /\ boot_pc = "constructed"
    /\ \E llm_ok \in BOOLEAN, token \in BOOLEAN :
          IF ~llm_ok
          THEN /\ init_ret' = <<FALSE>>
               /\ llm_running' = FALSE
               /\ UNCHANGED <<event_handlers, running, disp_pc, prod_pc, telegram_started>>
          ELSE /\ llm_running' = TRUE
               /\ event_handlers' = EngineHandlers
               /\ running' = TRUE
               /\ disp_pc' = "scheduled"
               /\ prod_pc' = [p \in Producers |-> "sleeping"]
               /\ telegram_started' = token
               /\ init_ret' = <<TRUE>>
    /\ boot_pc' = "initialized"
    /\ UNCHANGED <<event_counts, tasks, put_count, dispatched, handler_calls, started, stop_pc>>
    /\ UNCHANGED <<exit_code, engine_running>>
    /\ UNCHANGED <<baseVars, agentVars, navVars>>
    /\ UNCHANGED <<policyVars, execVars, watcherVars, handlerVars>>

(* main(): initialize returned False: "Failed to initialize", sys.exit(1). *)
ExitInitFailed ==
    /\ boot_pc = "initialized"
    /\ init_ret = <<FALSE>>
    /\ ProcessExit(1)

(* main(): initialize returned True: AuraEngine.run sets the flag and loops. *)
Run ==
    /\ boot_pc = "initialized"
    /\ init_ret = <<TRUE>>
    /\ boot_pc' = "running"
    /\ engine_running' = TRUE
    /\ UNCHANGED <<init_ret, exit_code, telegram_started>>
    /\ UNCHANGED <<baseVars, agentVars, navVars>>
    /\ UNCHANGED <<policyVars, execVars, watcherVars, dispatchVars, handlerVars>>

(* The /stop command: the flag is cleared and the Telegram application stopped. *)
StopCommand ==
    /\ boot_pc = "running"
    /\ telegram_started
    /\ engine_running' = FALSE
    /\ telegram_started' = FALSE
    /\ UNCHANGED <<boot_pc, init_ret, exit_code>>
    /\ UNCHANGED <<baseVars, agentVars, navVars>>
    /\ UNCHANGED <<policyVars, execVars, watcherVars, dispatchVars, handlerVars>>

(* The loop of run sees the flag cleared; run and main return. *)
RunReturns ==
    /\ boot_pc = "running"
    /\ ~engine_running
    /\ ProcessExit(0)

(* signal_handler on SIGINT or SIGTERM: sys.exit(0); the stop task it *)
(* created does not get to run.                                       *)
SignalHandler ==
    /\ boot_pc \in {"constructed", "running"}
    /\ ProcessExit(0)

----------------------------------------------------------------------------
(* Watcher._monitor_notifications.  The notification list of the device     *)
(* holds a standing notification, as long as it is not dismissed, and the   *)
(* notifications posted since the last poll.                                *)
MaxPolls == 4

(* watcher.py:153: the set of seen ids is cleared when it holds more. *)
SeenLimit == 100

(* How many notifications are posted between two polls. *)
Batches == {0, 1, 50}

StandingNotification == [package |-> "com.whatsapp", title |-> "meeting at 5"]

(* The n-th notification posted: another title of another app. *)
PostedNotification(n) == [package |-> "com.news", title |-> n]

(* f"{package}:{title}": the pair of the two parts. *)
notif_id(notif) == <<notif.package, notif.title>>

(* Watcher._calculate_notification_priority, in hundredths; of the titles *)
(* here only the standing one holds a keyword.                            *)
calculate_notification_priority(notif) ==
    IF notif.package \in {"com.whatsapp", "com.google.android.gm"}
    THEN IF notif = StandingNotification THEN 90 ELSE 70
    ELSE 30

NotificationEvent(notif) ==
    [type |-> "notification", source |-> notif.package, notif_id |-> notif_id(notif),
     priority |-> calculate_notification_priority(notif)]

(* The for loop of one iteration over the polled list, from index i on: *)
(* the set of seen ids and the events put.                              *)
RECURSIVE notifications_loop(_, _, _, _)
notifications_loop(notifications, i, seen, put) ==
    IF i > Len(notifications) THEN [seen |-> seen, put |-> put]
    ELSE IF notif_id(notifications[i]) \notin seen
    THEN notifications_loop(notifications, i + 1, seen \cup {notif_id(notifications[i])},
                            Append(put, NotificationEvent(notifications[i])))
    ELSE notifications_loop(notifications, i + 1, seen, put)

(* The body of one iteration: the loop, then the set is cleared when it *)
(* holds more than the limit.                                           *)
monitor_notifications_iteration(seen, notifications) ==
    LET out == notifications_loop(notifications, 1, seen, <<>>)
    IN  [last_notifications |-> IF Cardinality(out.seen) > SeenLimit THEN {} ELSE out.seen,
         put |-> out.put]

(* One iteration of _monitor_notifications: the list is polled and the body *)
(* runs.                                                                    *)
MonitorNotifications ==
    /\ notif_polls < MaxPolls
    /\ \E standing \in BOOLEAN, n \in Batches :
          LET posted == [i \in 1..n |-> PostedNotification(notif_fresh + i)]
              notifications == IF standing THEN <<StandingNotification>> \o posted
                               ELSE posted
              out == monitor_notifications_iteration(last_notifications, notifications)
          IN  /\ last_notifications' = out.last_notifications
              /\ event_queue' = event_queue \o out.put
              /\ notif_fresh' = notif_fresh + n
    /\ notif_polls' = notif_polls + 1
    /\ UNCHANGED <<cal_now, loop_count, start_count>>
    /\ UNCHANGED <<policyVars, execVars, callVars, dispatchVars, handlerVars, quietVars>>

----------------------------------------------------------------------------
(* Watcher._monitor_time.  Time is counted in seconds from the start of the *)
(* loop.                                                                    *)
MaxCalTime == 400

(* watcher.py:195: the sleep between two iterations. *)
SleepSeconds == 30

(* The time from one reading of the clock to the next: the sleep and what *)
(* the iteration itself took.                                             *)
PollSpacings == {SleepSeconds, SleepSeconds + 5}

(* What termux-calendar-list returns: the entries and their times. *)
CalendarEntries == <<[title |-> "Standup", time |-> 340],
                     [title |-> "Review", time |-> 390]>>

(* (event_time - now).total_seconds() *)
seconds_until(entry, clock) == entry.time - clock

(* The events one calendar entry makes at one iteration; minutes_until is *)
(* compared as seconds.                                                   *)
calendar_events(entry, clock) ==
    IF 4 * 60 < seconds_until(entry, clock) /\ seconds_until(entry, clock) <= 5 * 60
    THEN <<[type |-> "calendar_5min", source |-> "calendar", data |-> entry,
            timestamp |-> clock, priority |-> 80]>>
    ELSE IF 0 < seconds_until(entry, clock) /\ seconds_until(entry, clock) <= 2 * 60
    THEN <<[type |-> "calendar_urgent", source |-> "calendar", data |-> entry,
            timestamp |-> clock, priority |-> 95]>>
    ELSE <<>>

(* The for loop of one iteration over the entries, from index i on. *)
RECURSIVE time_loop(_, _, _)
time_loop(entries, i, clock) ==
    IF i > Len(entries) THEN <<>>
    ELSE calendar_events(entries[i], clock) \o time_loop(entries, i + 1, clock)

(* One iteration of _monitor_time and the sleep after it. *)
MonitorTime ==
    /\ cal_now < MaxCalTime
    /\ event_queue' = event_queue \o time_loop(CalendarEntries, 1, cal_now)
    /\ \E spacing \in PollSpacings : cal_now' = cal_now + spacing
    /\ UNCHANGED <<last_notifications, notif_fresh, notif_polls, loop_count, start_count>>
    /\ UNCHANGED <<policyVars, execVars, callVars, dispatchVars, handlerVars, quietVars>>

----------------------------------------------------------------------------
(* Watcher.start and Watcher.stop as a caller may use them on one Watcher, *)
(* and the tasks they leave running.                                       *)
MaxStarts == 3

(* The loops start() makes tasks of: _process_events and the three monitors. *)
Loops == Producers \cup {"dispatcher"}

(* Watcher.start: the flag is set and a task is created for each loop, *)
(* whatever tasks exist.                                               *)
StartWatcher ==
    /\ start_count < MaxStarts
    /\ running' = TRUE
    /\ loop_count' = [l \in Loops |-> loop_count[l] + 1]
    /\ start_count' = start_count + 1
    /\ UNCHANGED <<event_handlers, event_counts, disp_pc, prod_pc, tasks, put_count,
                   dispatched, handler_calls, started, llm_running, stop_pc>>
    /\ UNCHANGED <<last_notifications, notif_fresh, notif_polls, cal_now>>
    /\ UNCHANGED <<policyVars, execVars, watcherVars, handlerVars, quietVars>>

(* Watcher.stop: the flag is cleared; no task is cancelled or awaited. *)
StopWatcher ==
    /\ start_count > 0
    /\ running' = FALSE
    /\ UNCHANGED <<event_handlers, event_counts, disp_pc, prod_pc, tasks, put_count,
                   dispatched, handler_calls, started, llm_running, stop_pc>>
    /\ UNCHANGED monitorVars
    /\ UNCHANGED <<policyVars, execVars, watcherVars, handlerVars, quietVars>>

(* A task of a monitoring loop wakes from its sleep, finds the flag cleared *)
(* and returns.  A task of _process_events is suspended in get() on the     *)
(* empty queue and does not test the flag.                                  *)
MonitorLoopExit ==
    /\ ~running
    /\ \E p \in Producers :
          /\ loop_count[p] > 0
          /\ loop_count' = [loop_count EXCEPT ![p] = @ - 1]
    /\ UNCHANGED <<last_notifications, notif_fresh, notif_polls, cal_now, start_count>>
    /\ UNCHANGED <<policyVars, execVars, watcherVars, dispatchVars, handlerVars, quietVars>>

----------------------------------------------------------------------------
(* Initial states and specifications. *)
PolicyIdle(tables) ==
    /\ allowed_tools \in tables
    /\ denied_tools = DefaultDenied
    /\ pol_call = <<>>
    /\ pol_ret = FALSE
    /\ pol_watch = <<>>
    /\ pol_memo = <<>>
    /\ risk_call = <<>>
    /\ risk_ret = CRITICAL

ExecIdle ==
    /\ plan = <<>>
    /\ results = <<>>
    /\ invoked = <<>>
    /\ raised = FALSE
    /\ exec_op = "none"

WatcherIdle ==
    /\ now = 0
    /\ active_calls = NoCalls
    /\ event_queue = <<>>
    /\ last_poll = "none"
    /\ run_start = -1
    /\ auto_count = 0
    /\ short_call = FALSE

(* The watcher as constructed; the LLM server is started before it is. *)
DispatchIdle ==
    /\ running = FALSE
    /\ event_handlers = NoHandlers
    /\ event_counts = [k \in {} |-> 0]
    /\ disp_pc = "not_started"
    /\ prod_pc = [p \in Producers |-> "not_started"]
    /\ tasks = <<>>
    /\ put_count = 0
    /\ dispatched = <<>>
    /\ handler_calls = <<>>
    /\ started = <<>>
    /\ llm_running = TRUE
    /\ stop_pc = "idle"

(* No call is over, no handler has asked the reasoning engine for anything. *)
EngineIdle ==
    /\ call_over = FALSE
    /\ reasoning_requests = <<>>
    /\ operator_notices = <<>>

(* The agent as constructed: no message received. *)
AgentIdle ==
    /\ agent_call = <<>>
    /\ agent_ret = ""
    /\ agent_steps = <<>>
    /\ conversation_history = <<>>
    /\ ctx_messages = <<>>
    /\ ctx_added = <<>>

(* The navigator as constructed: no automation under way. *)
NavigatorIdle ==
    /\ nav_op = <<>>
    /\ nav_results = <<>>
    /\ nav_ret = <<>>

(* main() before AuraEngine.initialize is awaited. *)
BootIdle ==
    /\ boot_pc = "constructed"
    /\ init_ret = <<>>
    /\ exit_code = <<>>
    /\ telegram_started = FALSE
    /\ engine_running = FALSE

(* No call of the call handler's methods made yet. *)
SessionIdle ==
    /\ hic_call = <<>>
    /\ hic_count = 0
    /\ conv_count = 0
    /\ end_count = 0
    /\ llm_calls = 0
    /\ boss_notices = 0

(* The monitoring loops before their first iteration. *)
MonitorIdle ==
    /\ last_notifications = {}
    /\ notif_fresh = 0
    /\ notif_polls = 0
    /\ cal_now = 0
    /\ loop_count = [l \in Loops |-> 0]
    /\ start_count = 0

OtherIdle ==
    /\ AgentIdle
    /\ NavigatorIdle
    /\ BootIdle
    /\ SessionIdle
    /\ MonitorIdle

(* No lock file, no process started. *)
LockIdle ==
    /\ lock_file = <<>>
    /\ sw_pc = [p \in Procs |-> "not_started"]
    /\ sw_exit = [p \in Procs |-> <<>>]

(* No secret asked for. *)
SecretIdle ==
    /\ sec_call = [env |-> "None", key |-> "LLM_PROVIDER",
                   config_dict |-> [is_none |-> TRUE, entries |-> {}], default |-> "None"]
    /\ sec_ret = <<>>

(* No priority asked for. *)
PlatformIdle ==
    /\ prio_call = check_call_status("X")
    /\ prio_ret = <<>>
    /\ EngineIdle
    /\ SecretIdle
    /\ LockIdle
    /\ OtherIdle

(* The call handler as constructed, the rule not called. *)
CallHandlerIdle ==
    /\ sa_call = <<>>
    /\ sa_ret = <<>>
    /\ active_call = <<>>
    /\ answered = <<>>
    /\ declined = 0
    /\ spoken = <<>>
    /\ stored = <<>>
    /\ hic_ret = <<>>

Init == PolicyIdle(PolicyTables) /\ ExecIdle /\ WatcherIdle /\ DispatchIdle /\ CallHandlerIdle /\ PlatformIdle

Next == CheckTool \/ GetToolRisk

Spec == Init /\ [][Next]_vars

(* Sequences of policy calls in which one call is watched. *)
InitPolicySeq ==
    /\ allowed_tools \in PolicyTables
    /\ denied_tools = DefaultDenied
    /\ pol_call = <<>>
    /\ pol_ret = FALSE
    /\ pol_watch \in WatchedCalls
    /\ pol_memo = <<>>
    /\ risk_call = <<>>
    /\ risk_ret = CRITICAL
    /\ ExecIdle /\ WatcherIdle /\ DispatchIdle /\ CallHandlerIdle /\ PlatformIdle

NextPolicySeq == CheckTool \/ GetToolRisk

SpecPolicySeq == InitPolicySeq /\ [][NextPolicySeq]_vars

InitExec ==
    PolicyIdle({DefaultAllowed}) /\ ExecIdle /\ WatcherIdle /\ DispatchIdle /\ CallHandlerIdle /\ PlatformIdle

NextExec == ExecuteTool \/ ExecutePlan

SpecExec == InitExec /\ [][NextExec]_vars

InitCalls ==
    PolicyIdle({DefaultAllowed}) /\ ExecIdle /\ WatcherIdle /\ DispatchIdle /\ CallHandlerIdle /\ PlatformIdle

NextCalls == MonitorCalls

SpecCalls == InitCalls /\ [][NextCalls]_vars

(* The watcher alone: handlers are registered, it is started and it runs. *)
InitDispatch ==
    PolicyIdle({DefaultAllowed}) /\ ExecIdle /\ WatcherIdle /\ DispatchIdle /\ CallHandlerIdle /\ PlatformIdle

NextDispatch ==
    \/ RegisterHandler
    \/ WatcherStart
    \/ ProduceCall
    \/ ProduceNotification
    \/ ProduceCalendar
    \/ DispatcherRun
    \/ TaskRun

SpecDispatch == InitDispatch /\ [][NextDispatch]_vars

(* The engine after AuraEngine.initialize: its handlers are registered and  *)
(* the watcher is started; then it runs and is stopped.                     *)
InitShutdown ==
    /\ PolicyIdle({DefaultAllowed}) /\ ExecIdle /\ WatcherIdle
    /\ running = TRUE
    /\ event_handlers = EngineHandlers
    /\ event_counts = [k \in {} |-> 0]
    /\ disp_pc = "scheduled"
    /\ prod_pc = [p \in Producers |-> "sleeping"]
    /\ tasks = <<>>
    /\ put_count = 0
    /\ dispatched = <<>>
    /\ handler_calls = <<>>
    /\ started = <<>>
    /\ llm_running = TRUE
    /\ stop_pc = "idle"
    /\ CallHandlerIdle /\ PlatformIdle

NextShutdown ==
    \/ ProduceCall
    \/ ProduceNotification
    \/ ProduceCalendar
    \/ ProducerExit
    \/ DispatcherRun
    \/ TaskRun
    \/ EngineStopBegin
    \/ EngineStopFinish

SpecShutdown == InitShutdown /\ [][NextShutdown]_vars

(* The initialised engine at work: events are put and dispatched and the *)
(* handler tasks run.                                                    *)
InitEngine == InitShutdown

NextEngine ==
    \/ ProduceCall
    \/ ProduceNotification
    \/ ProduceCalendar
    \/ PollNoCall
    \/ DispatcherRun
    \/ EngineTaskRun

SpecEngine == InitEngine /\ [][NextEngine]_vars

(* The should-answer rule applied to any context at any hour. *)
InitShouldAnswer ==
    /\ PolicyIdle({DefaultAllowed}) /\ ExecIdle /\ WatcherIdle /\ DispatchIdle
    /\ sa_call \in Contexts \X Hours
    /\ sa_ret = <<>>
    /\ active_call = <<>>
    /\ answered = <<>>
    /\ declined = 0
    /\ spoken = <<>>
    /\ stored = <<>>
    /\ hic_ret = <<>>
    /\ PlatformIdle

NextShouldAnswer == ShouldAnswerCall

SpecShouldAnswer == InitShouldAnswer /\ [][NextShouldAnswer]_vars

(* The call priority on any call_info, and the watcher's first poll. *)
InitPriority ==
    /\ PolicyIdle({DefaultAllowed}) /\ ExecIdle /\ WatcherIdle /\ DispatchIdle
    /\ CallHandlerIdle
    /\ prio_call \in CallInfos
    /\ prio_ret = <<>>
    /\ EngineIdle
    /\ SecretIdle
    /\ LockIdle
    /\ OtherIdle

NextPriority == CalculateCallPriority \/ FirstPoll

SpecPriority == InitPriority /\ [][NextPriority]_vars

(* get_secret on any environment, section and default. *)
InitSecret ==
    /\ PolicyIdle({DefaultAllowed}) /\ ExecIdle /\ WatcherIdle /\ DispatchIdle
    /\ CallHandlerIdle
    /\ prio_call = check_call_status("X")
    /\ prio_ret = <<>>
    /\ EngineIdle
    /\ sec_call \in SecretCalls
    /\ sec_ret = <<>>
    /\ LockIdle
    /\ OtherIdle

NextSecret == GetSecret

SpecSecret == InitSecret /\ [][NextSecret]_vars

(* The agent receiving messages, on each of the policy tables. *)
InitAgent ==
    /\ PolicyIdle(AgentTables) /\ ExecIdle /\ WatcherIdle /\ DispatchIdle
    /\ CallHandlerIdle /\ PlatformIdle

NextAgent == ProcessMessage

SpecAgent == InitAgent /\ [][NextAgent]_vars

(* One automation of the navigator against a device whose steps may fail. *)
InitAutomation ==
    /\ PolicyIdle({DefaultAllowed}) /\ ExecIdle /\ WatcherIdle /\ DispatchIdle
    /\ CallHandlerIdle /\ PlatformIdle

NextAutomation == StartAutomation \/ DeviceStep \/ AutomationReturn

SpecAutomation == InitAutomation /\ [][NextAutomation]_vars

(* The process from the start of main() to its exit. *)
InitBoot ==
    /\ PolicyIdle({DefaultAllowed}) /\ ExecIdle /\ WatcherIdle
    /\ running = FALSE
    /\ event_handlers = NoHandlers
    /\ event_counts = [k \in {} |-> 0]
    /\ disp_pc = "not_started"
    /\ prod_pc = [p \in Producers |-> "not_started"]
    /\ tasks = <<>>
    /\ put_count = 0
    /\ dispatched = <<>>
    /\ handler_calls = <<>>
    /\ started = <<>>
    /\ llm_running = FALSE
    /\ stop_pc = "idle"
    /\ CallHandlerIdle /\ PlatformIdle

NextBoot ==
    \/ Initialize
    \/ ExitInitFailed
    \/ Run
    \/ StopCommand
    \/ RunReturns
    \/ SignalHandler
    \/ ProduceCall
    \/ ProduceNotification
    \/ ProduceCalendar
    \/ DispatcherRun
    \/ EngineTaskRun

SpecBoot == InitBoot /\ [][NextBoot]_vars

(* The context manager of the agent under add_message. *)
InitContext == InitDispatch

NextContext == AddMessage

SpecContext == InitContext /\ [][NextContext]_vars

(* The notification monitor alone. *)
InitNotifications == InitDispatch

NextNotifications == MonitorNotifications

SpecNotifications == InitNotifications /\ [][NextNotifications]_vars

(* The time monitor alone. *)
InitCalendar == InitDispatch

NextCalendar == MonitorTime

SpecCalendar == InitCalendar /\ [][NextCalendar]_vars

(* One Watcher started and stopped by its caller. *)
InitRestart == InitDispatch

NextRestart ==
    \/ StartWatcher
    \/ StopWatcher
    \/ MonitorLoopExit

SpecRestart == InitRestart /\ [][NextRestart]_vars

(* Processes of the program starting and stopping over one lock file, which *)
(* may be there from before.                                                *)
InitLock ==
    /\ PolicyIdle({DefaultAllowed}) /\ ExecIdle /\ WatcherIdle /\ DispatchIdle
    /\ CallHandlerIdle
    /\ prio_call = check_call_status("X")
    /\ prio_ret = <<>>
    /\ EngineIdle
    /\ SecretIdle
    /\ lock_file \in {<<>>} \cup
                     {<<LockContent(pid, two_lines)>> :
                         pid \in ForeignPids, two_lines \in BOOLEAN}
    /\ sw_pc = [p \in Procs |-> "not_started"]
    /\ sw_exit = [p \in Procs |-> <<>>]
    /\ OtherIdle

NextLock == CreateLockCheck \/ CreateLockWrite \/ TriggerStop

SpecLock == InitLock /\ [][NextLock]_vars

(* The call handler: incoming calls, conversation turns, end of call. *)
InitCallHandler ==
    PolicyIdle({DefaultAllowed}) /\ ExecIdle /\ WatcherIdle /\ DispatchIdle /\ CallHandlerIdle /\ PlatformIdle

NextCallHandler ==
    \/ HandleIncomingCall
    \/ HandleCallConversation
    \/ EndCall

SpecCallHandler == InitCallHandler /\ [][NextCallHandler]_vars

(* The call handler receiving incoming calls only. *)
InitIncoming == InitCallHandler

NextIncoming == HandleIncomingCall

SpecIncoming == InitIncoming /\ [][NextIncoming]_vars

(* The rule applied to the contexts _build_call_context produces, at any hour. *)
InitBuiltContext == InitCallHandler

NextBuiltContext == BuildCallContext \/ ShouldAnswerCall

SpecBuiltContext == InitBuiltContext /\ [][NextBuiltContext]_vars

(* A call session: an auto-answer, conversation turns and end_call, in any *)
(* order.                                                                  *)
InitSession == InitCallHandler

NextSession ==
    \/ OnAutoAnswer
    \/ HandleCallConversation
    \/ EndCall

SpecSession == InitSession /\ [][NextSession]_vars

----------------------------------------------------------------------------
(* Claims about PolicyEngine.check_tool, under Spec. *)

Called == pol_call # <<>>

(* C1: a tool on the deny-list is refused whatever the approval flag, also  *)
(* when the same name is a key of the allow-list.                           *)
C1_DenyListWins ==
    (Called /\ pol_call[1] \in denied_tools) => pol_ret = FALSE

C1_Witness ==
    /\ Called
    /\ pol_call[1] \in denied_tools
    /\ pol_call[1] \in DOMAIN allowed_tools
    /\ pol_call[2] = TRUE
    /\ pol_ret = FALSE

(* C2: a tool that is no key of the allow-list is refused whatever the      *)
(* approval flag.                                                           *)
C2_UnlistedRefused ==
    (Called /\ pol_call[1] \notin DOMAIN allowed_tools) => pol_ret = FALSE

C2_Witness ==
    /\ Called
    /\ pol_call[1] \notin DOMAIN allowed_tools
    /\ pol_call[1] \notin denied_tools
    /\ pol_call[2] = TRUE
    /\ pol_ret = FALSE

HighRisk(t) ==
    /\ t \in DOMAIN allowed_tools
    /\ t \notin denied_tools
    /\ allowed_tools[t] >= HIGH

PlainDenial(t) == t \in denied_tools \/ t \notin DOMAIN allowed_tools

(* C3: for an allow-listed, non-denied tool of risk HIGH or CRITICAL the    *)
(* decision without approval is a refusal that differs from the decision    *)
(* for a plainly denied tool (it says that approval is required), and the   *)
(* decision with approval is an allowance.                                  *)
C3_ApprovalDistinguished ==
    (Called /\ HighRisk(pol_call[1])) =>
        IF pol_call[2]
        THEN pol_ret = TRUE
        ELSE /\ pol_ret = FALSE
             /\ \A u \in ToolNames :
                   PlainDenial(u) =>
                       check_tool(allowed_tools, denied_tools, u, FALSE) # pol_ret

(* C4: an allow-listed, non-denied tool of risk LOW or MEDIUM is allowed    *)
(* without approval.                                                        *)
C4_LowRiskAllowed ==
    (/\ Called
     /\ pol_call[1] \in DOMAIN allowed_tools
     /\ pol_call[1] \notin denied_tools
     /\ allowed_tools[pol_call[1]] < HIGH
     /\ pol_call[2] = FALSE) => pol_ret = TRUE

C4_Witness ==
    /\ Called
    /\ pol_call[1] \in DOMAIN allowed_tools
    /\ pol_call[1] \notin denied_tools
    /\ allowed_tools[pol_call[1]] = MEDIUM
    /\ pol_call[2] = FALSE
    /\ pol_ret = TRUE

----------------------------------------------------------------------------
(* Claims about ToolExecutor, under SpecExec. *)

(* C5: the executor acts only on tools the policy allows: every tool        *)
(* function it invoked belongs to a tool check_tool allows for some value   *)
(* of the approval flag.                                                    *)
C5_PolicyGated ==
    \A i \in 1..Len(invoked) :
        \E user_approved \in BOOLEAN :
            check_tool(allowed_tools, denied_tools, invoked[i], user_approved)

(* What a request does when it is executed: it succeeds when its tool is    *)
(* registered and the tool function returns success = True.                 *)
Succeeds(c) == c.tool \in RegisteredTools /\ c.behaviour = "ok"

FirstFailure(p) ==
    IF \E i \in 1..Len(p) : ~Succeeds(p[i])
    THEN CHOOSE i \in 1..Len(p) : ~Succeeds(p[i]) /\ \A j \in 1..(i - 1) : Succeeds(p[j])
    ELSE Len(p)

RECURSIVE RegisteredPrefix(_, _)
RegisteredPrefix(p, k) ==
    IF k = 0 THEN <<>>
    ELSE IF p[k].tool \in RegisteredTools
         THEN Append(RegisteredPrefix(p, k - 1), p[k].tool)
         ELSE RegisteredPrefix(p, k - 1)

(* C6: execute_plan returns one result per request, in request order, for   *)
(* exactly the prefix that ends at the first failing request (all of them   *)
(* when none fails), and invokes no tool after that request.                *)
C6_PlanStopsAtFirstFailure ==
    exec_op = "execute_plan" =>
        LET k == FirstFailure(plan)
        IN  /\ Len(results) = k
            /\ \A i \in 1..k : /\ results[i].tool = plan[i].tool
                               /\ results[i].success = Succeeds(plan[i])
            /\ invoked = RegisteredPrefix(plan, k)

C6_Witness ==
    /\ exec_op = "execute_plan"
    /\ Len(plan) = 3
    /\ Succeeds(plan[1])
    /\ plan[2].tool \in RegisteredTools /\ plan[2].behaviour = "fail"
    /\ Succeeds(plan[3])
    /\ Len(results) = 2
    /\ invoked = <<plan[1].tool, plan[2].tool>>

Faulty(c) == c.tool \in RegisteredTools /\ c.behaviour \in {"raises", "malformed"}

(* C7: no exception leaves execute_tool or execute_plan: a request whose    *)
(* tool function raises, or returns a malformed value, yields a result with *)
(* success = False that carries the error, and it is the last result of the *)
(* plan.                                                                    *)
C7_FaultsCaptured ==
    exec_op # "none" =>
        /\ ~raised
        /\ \A i \in 1..Len(results) :
              Faulty(plan[i]) => /\ results[i].success = FALSE
                                 /\ results[i].kind = "error"
                                 /\ i = Len(results)

C7_Witness ==
    /\ exec_op = "execute_plan"
    /\ Len(plan) = 3
    /\ Succeeds(plan[1])
    /\ Faulty(plan[2])
    /\ ~raised
    /\ Len(results) = 2
    /\ results[2].kind = "error"

----------------------------------------------------------------------------
(* Claims about Watcher._monitor_calls, under SpecCalls. *)

(* The session of the caller reported last was opened by the first of the   *)
(* consecutive polls that reported it.                                      *)
RingingSinceSessionStart ==
    /\ last_poll # "none"
    /\ last_poll \in DOMAIN active_calls
    /\ active_calls[last_poll] = run_start

(* C8: when a caller has been reported ringing on every poll from its first *)
(* sighting until after the 20-second threshold, exactly one                *)
(* call_auto_answer event has been put for it.                              *)
C8_ExactlyOneAutoAnswer ==
    (RingingSinceSessionStart /\ seconds(now - run_start) > AutoAnswerSeconds)
        => auto_count = 1

(* C9: no call_auto_answer event is put for a caller during a call that     *)
(* stops ringing before 20 seconds have elapsed.                            *)
C9_NoAutoAnswerForShortCall == ~short_call

NewEvents(old, new) == SubSeq(new, Len(old) + 1, Len(new))

(* C10: a ringing sighting of a caller that has an open entry in            *)
(* active_calls keeps the entry with its start time and puts no 'call'      *)
(* event for that caller.                                                   *)
C10_DuplicateRingingIgnored ==
    [][\A c \in Callers :
          (c \in DOMAIN active_calls /\ last_poll' = c /\ now' # now) =>
              /\ c \in DOMAIN active_calls'
              /\ active_calls'[c] = active_calls[c]
              /\ \A i \in 1..Len(NewEvents(event_queue, event_queue')) :
                    ~(/\ NewEvents(event_queue, event_queue')[i].type = "call"
                      /\ NewEvents(event_queue, event_queue')[i].number = c)]_vars

C10_Witness ==
    /\ last_poll # "none"
    /\ last_poll \in DOMAIN active_calls
    /\ active_calls[last_poll] < now
    /\ run_start = active_calls[last_poll]
    /\ Cardinality({i \in 1..Len(event_queue) :
                       event_queue[i] = CallEvent(last_poll)}) = 1

----------------------------------------------------------------------------
(* Claims about the dispatcher (SpecDispatch). *)

Occurrences(seq, x) == Cardinality({i \in 1..Len(seq) : seq[i] = x})

Ascending(ids) == \A i, j \in 1..Len(ids) : i < j => ids[i] < ids[j]

NonDecreasing(ids) == \A i, j \in 1..Len(ids) : i < j => ids[i] <= ids[j]

Ids(seq) == [i \in 1..Len(seq) |-> seq[i].id]

(* C11: the dispatcher takes events in the order they were put, whatever     *)
(* their priority: the events taken are in ascending order of enqueue        *)
(* number, and so are the handler calls made and the handler tasks started.  *)
C11_FifoDispatch ==
    /\ Ascending(Ids(dispatched))
    /\ NonDecreasing(Ids(handler_calls))
    /\ NonDecreasing(Ids(started \o tasks))

(* An event was put before one of higher priority; both were dispatched and *)
(* handler tasks of both have started.                                      *)
C11_Witness ==
    \E i, j \in 1..Len(dispatched) :
        /\ i < j
        /\ dispatched[i].id < dispatched[j].id
        /\ dispatched[i].priority < dispatched[j].priority
        /\ \E a, b \in 1..Len(started) :
              started[a].id = dispatched[i].id /\ started[b].id = dispatched[j].id

(* C12: for every dispatched event, each handler registered for its type is *)
(* called once per registration with that event, a task is created for each *)
(* call that returned a coroutine, no handler of another type is called,    *)
(* and a handler that raises does not cut the calls of the handlers after   *)
(* it.                                                                      *)
C12_FanOut ==
    \A i \in 1..Len(dispatched) : \A h \in HandlerIds :
        LET e == dispatched[i]
            call == [handler |-> h, id |-> e.id]
            registered == Occurrences(handlers_for(event_handlers, e.type), h)
        IN  /\ Occurrences(handler_calls, call) = registered
            /\ Occurrences(started \o tasks, call) =
                  IF RaisesWhenCalled(h) THEN 0 ELSE registered

(* An event was dispatched whose first handler raised when called and whose *)
(* second handler was called and ran, while a handler registered only for   *)
(* another type was not called.                                             *)
C12_Witness ==
    \E i \in 1..Len(dispatched) :
        LET e == dispatched[i]
            hs == handlers_for(event_handlers, e.type)
        IN  /\ Len(hs) >= 2
            /\ RaisesWhenCalled(hs[1])
            /\ ~RaisesWhenCalled(hs[2])
            /\ [handler |-> hs[2], id |-> e.id] \in {started[a] : a \in 1..Len(started)}
            /\ \E k \in DOMAIN event_handlers \ {e.type} : \E b \in 1..Len(event_handlers[k]) :
                  /\ \A c \in 1..Len(hs) : hs[c] # event_handlers[k][b]
                  /\ Occurrences(handler_calls, [handler |-> event_handlers[k][b], id |-> e.id]) = 0

(* A handler raised: when it was called, or in its task. *)
Faulted ==
    \/ \E i \in 1..Len(handler_calls) : RaisesWhenCalled(handler_calls[i].handler)
    \/ \E i \in 1..Len(started) : RaisesInTask(started[i].handler)

(* C13: once a handler has raised, the dispatcher is still alive (it has    *)
(* neither returned nor died), it runs again as soon as the queue holds an  *)
(* event, and it leaves no event behind when it suspends.                   *)
C13_FaultKeepsDispatcher ==
    Faulted =>
        /\ disp_pc \in {"scheduled", "waiting"}
        /\ event_queue # <<>> => DispatcherReady
        /\ disp_pc = "waiting" /\ ~DispatcherReady =>
              \A n \in 1..put_count : \E i \in 1..Len(dispatched) : dispatched[i].id = n

(* A handler raised for one event and a later event was dispatched to its *)
(* handlers, one called and one run as a task.                            *)
C13_Witness ==
    \E i, j \in 1..Len(handler_calls) :
        /\ i < j
        /\ \/ RaisesWhenCalled(handler_calls[i].handler)
           \/ /\ RaisesInTask(handler_calls[i].handler)
              /\ \E a \in 1..Len(started) : started[a] = handler_calls[i]
        /\ handler_calls[i].id < handler_calls[j].id
        /\ \E a \in 1..Len(started) : started[a].id = handler_calls[j].id

(* C14: every event put is either still on the queue or was taken by the   *)
(* dispatcher, and never both nor twice; the count of processed events     *)
(* agrees.                                                                 *)
C14_TakenExactlyOnce ==
    /\ \A n \in 1..put_count :
          Occurrences(Ids(dispatched), n) + Occurrences(Ids(event_queue), n) = 1
    /\ \A i \in 1..Len(dispatched) : dispatched[i].id \in 1..put_count
    /\ \A k \in DOMAIN event_counts :
          event_counts[k] = Cardinality({i \in 1..Len(dispatched) : dispatched[i].type = k})

(* Events of two different monitoring loops were put and the dispatcher, *)
(* now suspended, has taken every event put.                            *)
C14_Witness ==
    /\ put_count = MaxEvents
    /\ Len(dispatched) = put_count
    /\ \E i, j \in 1..Len(dispatched) :
          /\ dispatched[i].type = "call"
          /\ dispatched[j].type = "notification"
    /\ disp_pc = "waiting"
    /\ \E k \in DOMAIN event_counts : event_counts[k] >= 1

----------------------------------------------------------------------------
(* Claims about shutdown (SpecShutdown). *)

(* Watcher.stop has run, the monitoring loops have returned, no handler    *)
(* task is left and the dispatcher has nothing to run for: nothing will be *)
(* put on the queue any more.                                              *)
Quiescent ==
    /\ stop_pc = "stopped"
    /\ ~running
    /\ \A p \in Producers : prod_pc[p] = "exited"
    /\ tasks = <<>>
    /\ ~DispatcherReady

(* C19: after Watcher.stop has cleared the flag every loop returns: once   *)
(* the monitoring loops have returned and nothing is left to run, the      *)
(* dispatcher has returned too, also when it was suspended in get() on an  *)
(* empty queue.                                                            *)
C19_DispatcherExits ==
    Quiescent => disp_pc = "exited"

(* C20: AuraEngine.stop terminates the LLM server only when no handler     *)
(* task created by the dispatcher is still outstanding.                    *)
C20_NoTaskAtTeardown ==
    [][llm_running /\ ~llm_running' => tasks = <<>>]_vars

----------------------------------------------------------------------------
(* Claims about the should-answer rule (SpecShouldAnswer). *)

RuleCalled == sa_call # <<>> /\ sa_ret # <<>>

(* C15: for a context flagged as spam the rule returns False whatever the  *)
(* other fields and the hour are.                                          *)
C15_SpamNeverAnswered ==
    (RuleCalled /\ sa_call[1].is_spam) => sa_ret[1] = FALSE

(* The rule refused a spam-flagged urgent family contact with a recalled *)
(* need, a context every later rule would answer.                        *)
C15_Witness ==
    /\ RuleCalled
    /\ sa_call[1].is_spam
    /\ sa_call[1].relationship = "family"
    /\ sa_call[1].urgency > 70
    /\ sa_call[1].is_contact
    /\ sa_call[1].recent_context = "Recent interactions: - I need the report today"
    /\ sa_ret[1] = FALSE

(* The decision table of the rule: not spam, and one of the four reasons. *)
DecisionTable(c, hour) ==
    /\ ~c.is_spam
    /\ \/ c.relationship = "family" /\ c.urgency > 70
       \/ c.relationship = "work" /\ hour \in 9..18
       \/ \E t \in RecentContexts \ {"", "Recent interactions: - Called yesterday about lunch"} :
             c.recent_context = t
       \/ c.is_contact /\ c.urgency > 50

(* C16: the rule returns a boolean for every context and hour, and the     *)
(* value is that of the ordered decision table.                            *)
C16_DecisionTable ==
    RuleCalled =>
        /\ sa_ret[1] \in BOOLEAN
        /\ sa_ret[1] = DecisionTable(sa_call[1], sa_call[2])

(* The rule answered a work call at the last hour of the window, for a    *)
(* caller who is no contact and has no recalled need.                     *)
C16_Witness ==
    /\ RuleCalled
    /\ ~sa_call[1].is_spam
    /\ sa_call[1].relationship = "work"
    /\ sa_call[2] = 18
    /\ ~sa_call[1].is_contact
    /\ sa_call[1].recent_context = ""
    /\ sa_ret[1] = TRUE

----------------------------------------------------------------------------
(* Claims about the call handler (SpecCallHandler). *)

(* C17: the answer actuator is called only for a call that has rung for    *)
(* the threshold, that the rule says to answer and whose answer action     *)
(* the policy allows; the handler holds no approval.                       *)
C17_AnswerPolicyGated ==
    \A i \in 1..Len(answered) :
        /\ answered[i].duration >= AutoAnswerSeconds
        /\ answered[i].should_answer
        /\ check_tool(allowed_tools, denied_tools, "phone_answer", FALSE)

ErrorTexts ==
    {"Error: LLM server not available", "Error: Generation failed",
     "Error: connection refused"}

Unusable(text) == text = "" \/ text \in ErrorTexts

(* C18: no empty or error-shaped LLM output is spoken to the caller,      *)
(* appended to the transcript as the assistant's turn, or stored as the   *)
(* summary of the call.                                                   *)
C18_NoErrorTextInCall ==
    /\ \A i \in 1..Len(spoken) : ~Unusable(spoken[i])
    /\ active_call # <<>> =>
          \A i \in 1..Len(active_call[1].transcript) :
              active_call[1].transcript[i].who = "AURA" =>
                  ~Unusable(active_call[1].transcript[i].text)
    /\ \A i \in 1..Len(stored) :
          stored[i].type = "call_summary" => ~Unusable(stored[i].text)

----------------------------------------------------------------------------
(* Further claims about PolicyEngine (Spec). *)

RiskCalled == risk_call # <<>>

(* C23: get_tool_risk returns the classified risk of an allow-listed name  *)
(* and CRITICAL for every other name, deny-listed and unknown ones         *)
(* included; the values of the risk levels are strictly ordered.           *)
C23_RiskFailClosed ==
    /\ LOW < MEDIUM /\ MEDIUM < HIGH /\ HIGH < CRITICAL
    /\ RiskCalled =>
          /\ risk_ret \in ActionRisk
          /\ risk_call[1] \notin DOMAIN allowed_tools => risk_ret = CRITICAL
          /\ risk_call[1] \in DOMAIN allowed_tools => risk_ret = allowed_tools[risk_call[1]]

(* The risk of a deny-listed name that is not allow-listed was asked for. *)
C23_Witness ==
    /\ RiskCalled
    /\ risk_call[1] \in denied_tools
    /\ risk_call[1] \notin DOMAIN allowed_tools
    /\ risk_ret = CRITICAL

(* C24: check_tool and get_tool_risk leave allowed_tools and denied_tools *)
(* as they are, and a check_tool call returns what an earlier call with   *)
(* the same tool and approval flag returned.                              *)
C24_PolicyPure ==
    [][/\ allowed_tools' = allowed_tools
       /\ denied_tools' = denied_tools
       /\ (pol_memo # <<>> /\ pol_call' # pol_call /\ pol_call' = pol_watch) =>
             pol_ret' = pol_memo[1]
       /\ (pol_memo # <<>> /\ pol_call = pol_watch) => pol_ret = pol_memo[1]]_vars

(* A HIGH-risk tool was checked with approval and allowed, its risk was *)
(* asked for, and the same check was made again with the same answer.   *)
C24_Witness ==
    /\ pol_watch = <<"phone_call", TRUE>>
    /\ pol_memo = <<TRUE, TRUE>>
    /\ risk_call = <<"phone_call">>
    /\ pol_call = pol_watch
    /\ pol_ret = TRUE

----------------------------------------------------------------------------
(* Claims about the call priority (SpecPriority). *)

(* The priority of a call by its two signals, in hundredths. *)
PriorityTable(is_contact, is_spam) ==
    CASE is_contact -> 80
      [] ~is_contact /\ is_spam -> 10
      [] OTHER -> 50

(* C29: for every combination of the two flags the call priority is 0.8 *)
(* for a contact, 0.1 for spam and 0.5 otherwise, and a 'call' event put *)
(* on first sighting carries the priority of the status it was built     *)
(* from.                                                                 *)
C29_CallPriority ==
    /\ prio_ret # <<>> =>
          prio_ret[1] = PriorityTable(prio_call.is_contact = "True", prio_call.is_spam = "True")
    /\ \A i \in 1..Len(event_queue) :
          event_queue[i].type = "call" =>
              LET info == check_call_status(event_queue[i].number)
              IN  event_queue[i].priority =
                      PriorityTable(info.is_contact = "True", info.is_spam = "True")

(* The priority of a spam call from no contact was computed, and a first *)
(* sighting put its 'call' event.                                        *)
C29_Witness ==
    /\ prio_ret = <<10>>
    /\ prio_call.is_spam = "True"
    /\ prio_call.is_contact = "False"
    /\ \E i \in 1..Len(event_queue) : event_queue[i].type = "call"

----------------------------------------------------------------------------
(* Claims about the engine's handlers (SpecEngine). *)

(* Nothing is left to run: no event on the queue, no handler task. *)
EngineSettled == event_queue = <<>> /\ tasks = <<>> /\ ~DispatcherReady

(* C25: a call session that became active is ended once the call is over: *)
(* when the call has ended and nothing is left to run, the session has    *)
(* been discarded.                                                        *)
C25_SessionEnded ==
    (call_over /\ EngineSettled) => active_call = <<>>

(* C26: for every notification event whose handler has run, a request of *)
(* type notification was handed to the reasoning engine.                 *)
C26_NotificationReasoned ==
    \A i \in 1..Len(started) :
        started[i].handler = "_on_notification" =>
            \E j \in 1..Len(reasoning_requests) :
                /\ reasoning_requests[j].type = "notification"
                /\ reasoning_requests[j].id = started[i].id

----------------------------------------------------------------------------
(* Claims about get_secret (SpecSecret). *)

(* The first available of the environment value, the value of the key in *)
(* the section, and the default.                                         *)
FirstAvailable(c) ==
    IF truthy_str(c.env) THEN c.env
    ELSE IF ~c.config_dict.is_none /\ \E e \in c.config_dict.entries : e[1] = c.key
         THEN dict_get(c.config_dict.entries, c.key)
    ELSE c.default

(* C22: get_secret returns the environment value when the variable is set, *)
(* else the section's value when the section has the key, else the         *)
(* default.                                                                *)
C22_SecretPriority ==
    sec_ret # <<>> => sec_ret[1] = FirstAvailable(sec_call)

----------------------------------------------------------------------------
(* Claims about the lock file (SpecLock). *)

Running == {p \in Procs : sw_pc[p] = "running"}

(* C27: the lock file keeps a second instance out: at most one process is *)
(* running with a constructed SafetySwitch, and the lock names it.        *)
C27_SingleInstance ==
    /\ Cardinality(Running) <= 1
    /\ \A p \in Running : lock_file = <<LockContent(p, TRUE)>>

----------------------------------------------------------------------------
(* Claims about the agent (SpecAgent). *)

(* The last message made the model ask for a tool that is allow-listed with *)
(* risk HIGH or above, not deny-listed, and among the agent's tools.        *)
HighRiskRequested ==
    /\ agent_call # <<>>
    /\ LET llm_response == mock_llm_call(agent_call[1].user_message)
       IN  /\ llm_response.tool_call
           /\ llm_response.tool_name \in AgentTools
           /\ llm_response.tool_name \in DOMAIN allowed_tools
           /\ llm_response.tool_name \notin denied_tools
           /\ allowed_tools[llm_response.tool_name] >= HIGH

Did(step) == \E i \in 1..Len(agent_steps) : agent_steps[i] = step

(* C30: a tool of risk HIGH or above reaches the approval prompt, is executed *)
(* exactly when the user answers 'y', and is cancelled otherwise; no tool is  *)
(* executed before the policy check.                                          *)
C30_ApprovalGatesHighRisk ==
    /\ Did("execute") => agent_steps[1] = "check_tool"
    /\ HighRiskRequested =>
          /\ Did("input")
          /\ Did("execute") <=> str_lower(agent_call[1].approval) = "y"
          /\ str_lower(agent_call[1].approval) # "y" => agent_ret = "Action cancelled by user."

----------------------------------------------------------------------------
(* Claims about the automations (SpecAutomation). *)

(* C28: an automation does not continue past a broken step: a failed result *)
(* is the last one in the results list.                                     *)
C28_StopsAtBrokenStep ==
    \A i \in 1..Len(nav_results) : ~nav_results[i].success => i = Len(nav_results)

----------------------------------------------------------------------------
(* Claims about start and exit (SpecBoot). *)

----------------------------------------------------------------------------
(* Claims about handle_incoming_call (SpecIncoming). *)

(* The rule applied to the context built from the inputs of the last call. *)
LastRule(call) ==
    should_answer_call(RuleContext(build_call_context(call.name, call.recent)), call.hour)

(* C31: a call of handle_incoming_call answers iff the call has rung 20 s  *)
(* and the rule says yes, declines iff it has rung 20 s and the rule says  *)
(* no, does neither before 20 s, returns True exactly when it answered,    *)
(* and changes active_call only when it answered.                          *)
C31_DecisionAtThreshold ==
    [][hic_count' # hic_count =>
          LET call == hic_call'[1]
              answer == call.duration >= 20 /\ LastRule(call)
              decline == call.duration >= 20 /\ ~LastRule(call)
          IN  /\ Len(answered') = Len(answered) + (IF answer THEN 1 ELSE 0)
              /\ Len(spoken') = Len(spoken) + (IF answer THEN 1 ELSE 0)
              /\ declined' = declined + (IF decline THEN 1 ELSE 0)
              /\ hic_ret' = <<answer>>
              /\ ~answer => active_call' = active_call
              /\ answer => active_call' # <<>>]_vars

(* A call from an acquaintance that has rung 21 s was declined, and a call *)
(* was not decided at all.                                                 *)
C31_Witness ==
    /\ hic_count = 1
    /\ hic_call[1].duration = 21
    /\ hic_call[1].name = "Ravi"
    /\ declined = 1
    /\ answered = <<>>
    /\ hic_ret = <<FALSE>>
    /\ active_call = <<>>

----------------------------------------------------------------------------
(* Claims about the call session (SpecSession). *)

(* The greeting followed by caller/AURA pairs. *)
GreetingAndPairs(transcript) ==
    /\ Len(transcript) % 2 = 1
    /\ \A i \in 1..Len(transcript) :
          transcript[i].who = (IF i % 2 = 1 THEN "AURA" ELSE "CALLER")

(* C32: with a call active, a turn appends the caller's utterance and then *)
(* the response, which is the text spoken, so that the transcript is the   *)
(* greeting followed by caller/AURA pairs; with no call active a turn      *)
(* changes nothing and calls neither the LLM, the speech nor the memory.   *)
C32_TurnAppendsPair ==
    [][/\ active_call' # <<>> => GreetingAndPairs(active_call'[1].transcript)
       /\ conv_count' # conv_count =>
             IF active_call = <<>>
             THEN /\ active_call' = <<>>
                  /\ spoken' = spoken
                  /\ stored' = stored
                  /\ llm_calls' = llm_calls
             ELSE LET old == active_call[1].transcript
                      new == active_call'[1].transcript
                  IN  /\ Len(new) = Len(old) + 2
                      /\ SubSeq(new, 1, Len(old)) = old
                      /\ new[Len(old) + 1].who = "CALLER"
                      /\ new[Len(old) + 1].text \in Utterances
                      /\ new[Len(old) + 2].who = "AURA"
                      /\ Len(spoken') = Len(spoken) + 1
                      /\ new[Len(old) + 2].text = spoken'[Len(spoken')]
                      /\ llm_calls' = llm_calls + 1]_vars

(* Two turns were made in an answered call, and the transcript holds the *)
(* greeting and two pairs.                                               *)
C32_Witness ==
    /\ active_call # <<>>
    /\ conv_count = 2
    /\ Len(active_call[1].transcript) = 5
    /\ active_call[1].transcript[2].text = "Is he there?"
    /\ active_call[1].transcript[4].text = "Tell him I called"

Summaries == {i \in 1..Len(stored) : stored[i].type = "call_summary"}

(* C33: end_call with an active call stores one call_summary record,      *)
(* notifies once and resets active_call; with no active call it stores    *)
(* nothing, notifies nobody and leaves the state as it is.                *)
C33_EndCallIdempotent ==
    [][end_count' # end_count =>
          IF active_call # <<>>
          THEN /\ Len(stored') = Len(stored) + 1
               /\ SubSeq(stored', 1, Len(stored)) = stored
               /\ stored'[Len(stored')].type = "call_summary"
               /\ boss_notices' = boss_notices + 1
               /\ active_call' = <<>>
          ELSE /\ stored' = stored
               /\ boss_notices' = boss_notices
               /\ active_call' = active_call
               /\ spoken' = spoken
               /\ llm_calls' = llm_calls]_vars

(* end_call was called twice in a row after an answered call: one summary, *)
(* one notice.                                                             *)
C33_Witness ==
    /\ answered # <<>>
    /\ end_count = 2
    /\ conv_count = 0
    /\ active_call = <<>>
    /\ Cardinality(Summaries) = 1
    /\ boss_notices = 1

----------------------------------------------------------------------------
(* A further claim about the engine at work (SpecEngine). *)

(* C38: at most one call is active at a time: _answer_call runs only when *)
(* no call is active, so the record of an answered call is not replaced   *)
(* before end_call has discarded it.                                      *)
C38_OneActiveCall ==
    [][Len(answered') > Len(answered) => active_call = <<>>]_vars

----------------------------------------------------------------------------
(* A claim about the rule on built contexts (SpecBuiltContext). *)

(* C39: on a context built by _build_call_context, a work caller is       *)
(* answered at every hour, and a caller without a name is answered        *)
(* exactly when the recalled context holds the word "need".               *)
C39_BuiltContextRule ==
    RuleCalled =>
        /\ sa_call[1].relationship = "work" => sa_ret[1] = TRUE
        /\ ~sa_call[1].is_contact =>
              (sa_ret[1] <=> contains_need(lower(sa_call[1].recent_context)))

(* A work caller without recalled context was answered at 22 h. *)
C39_Witness ==
    /\ RuleCalled
    /\ sa_call[1].relationship = "work"
    /\ sa_call[1].recent_context = ""
    /\ sa_call[2] = 22
    /\ sa_ret = <<TRUE>>

----------------------------------------------------------------------------
(* A claim about the context manager (SpecContext). *)

(* C34: the history holds at most max_history messages, and they are the *)
(* most recent ones added, in the order they were added.                 *)
C34_HistoryWithinLimit ==
    /\ Len(ctx_messages) <= max_history
    /\ Len(ctx_messages) = (IF Len(ctx_added) < max_history THEN Len(ctx_added)
                            ELSE max_history)
    /\ ctx_messages = SubSeq(ctx_added, Len(ctx_added) - Len(ctx_messages) + 1,
                             Len(ctx_added))

(* Twelve messages were added; the two oldest, a user message and a reply, *)
(* are gone and the history starts with the third.                         *)
C34_Witness ==
    /\ Len(ctx_added) = 12
    /\ Len(ctx_messages) = 10
    /\ ctx_added[1].role = "user"
    /\ ctx_added[2].role = "assistant"
    /\ ctx_added[3].role = "user"
    /\ ctx_added[4].role = "user"
    /\ ctx_messages[1] = ctx_added[3]
    /\ ctx_messages[10].role = "assistant"

----------------------------------------------------------------------------
(* A further claim about _monitor_calls (SpecCalls). *)

(* C35: after a poll, active_calls tracks no caller other than the one the *)
(* poll reported ringing.                                                  *)
C35_OnlyRingingTracked ==
    DOMAIN active_calls \subseteq {last_poll}

----------------------------------------------------------------------------
(* A claim about _monitor_notifications (SpecNotifications). *)

(* C36: no notification id produces two notification events. *)
C36_NotificationOnce ==
    \A i, j \in 1..Len(event_queue) :
        (/\ i < j
         /\ event_queue[i].type = "notification"
         /\ event_queue[j].type = "notification")
            => event_queue[i].notif_id # event_queue[j].notif_id

----------------------------------------------------------------------------
(* A claim about _monitor_time (SpecCalendar). *)

(* The indices of the events of a type made for a calendar entry. *)
CalendarEventsOf(type, title) ==
    {i \in 1..Len(event_queue) :
        /\ event_queue[i].type = type
        /\ event_queue[i].data.title = title}

(* C37: for each calendar entry at most one calendar_5min event and at most *)
(* one calendar_urgent event are enqueued.                                  *)
C37_CalendarEventsOnce ==
    \A k \in 1..Len(CalendarEntries), type \in {"calendar_5min", "calendar_urgent"} :
        Cardinality(CalendarEventsOf(type, CalendarEntries[k].title)) <= 1

----------------------------------------------------------------------------
(* A claim about Watcher.start and Watcher.stop (SpecRestart). *)

(* C40: at any time at most one task runs the dispatcher loop and at most *)
(* one task runs each monitoring loop.                                    *)
C40_NoDuplicateLoops == \A l \in Loops : loop_count[l] <= 1

====
